---- MODULE Spec2Model ----
(***************************************************************************)
(* Model of the Valon 5007 synthesizer driver: the legacy ValonSynth class *)
(* (ValonSynth.cc / ValonSynth.h), the template Valon::Synth<INTERFACE>    *)
(* (ValonSynth.hpp / ValonSynth.inl) and the byte transport they use.      *)
(*                                                                         *)
(* A 32-bit word is the set of its one-bits (a subset of 0..31): bitwise   *)
(* and/or/shift are then set operations and no word has to fit a TLC       *)
(* integer.  A byte is an integer 0..255.  C arrays are TLA+ sequences;    *)
(* At(b, i) reads the C index i.                                           *)
(***************************************************************************)
EXTENDS Integers, Sequences, FiniteSets, TLC

VARIABLES dev, last, pc

vars == <<dev, last, pc>>

-----------------------------------------------------------------------------
(* Bounds of the model *)

\* requests of one operation that meet a fault on the line
MaxFaults == 1

-----------------------------------------------------------------------------
(* Bit and byte arithmetic *)

RECURSIVE SumBits(_)
SumBits(S) ==
  IF S = {} THEN 0
  ELSE LET i == CHOOSE j \in S : TRUE IN 2^i + SumBits(S \ {i})

\* the unsigned value of the bit set S (S within 0..30)
BitsToNat(S) == SumBits(S)

\* the w low bits of the non-negative integer n
NatToBits(n, w) == {i \in 0..(w - 1) : i <= 30 /\ (n \div 2^i) % 2 = 1}

\* x << k and x >> k on unsigned 32-bit words
Shl(S, k) == {i + k : i \in {j \in S : j + k <= 31}}
Shr(S, k) == {i - k : i \in {j \in S : j >= k}}

\* (word >> k) & (2^w - 1) as a number
Field(S, k, w) == BitsToNat(Shr(S, k) \cap (0..(w - 1)))

\* the 32-bit constant written 0xB3B2B1B0 in the source
Hex32(b3, b2, b1, b0) ==
  Shl(NatToBits(b3, 8), 24) \cup Shl(NatToBits(b2, 8), 16)
    \cup Shl(NatToBits(b1, 8), 8) \cup NatToBits(b0, 8)

\* a | b and a & b on bytes
Or8(a, b) == BitsToNat(NatToBits(a, 8) \cup NatToBits(b, 8))
And8(a, b) == BitsToNat(NatToBits(a, 8) \cap NatToBits(b, 8))

\* statements run in order: v is computed, once, before F uses it
Bind(v, F(_)) == CHOOSE r \in {F(x) : x \in {v}} : TRUE

At(bytes, i) == bytes[i + 1]

\* bytes[i .. i+n-1] (C indices)
Slice(bytes, i, n) == SubSeq(bytes, i + 1, i + n)

\* the array bytes with src stored from C index i on
Store(bytes, i, src) ==
  Bind(src, LAMBDA v :
    [k \in 1..Len(bytes) |->
       IF k > i /\ k <= i + Len(v) THEN v[k - i] ELSE bytes[k]])

RECURSIVE SumSeq(_)
SumSeq(s) == IF s = <<>> THEN 0 ELSE Head(s) + SumSeq(Tail(s))

-----------------------------------------------------------------------------
(* Protocol constants *)

ACK == \H06
NACK == \H15

\* enum Synthesizer { A = 0x00, B = 0x08 }
SynthA == \H00
SynthB == \H08
Synthesizer == {SynthA, SynthB}

\* no build of the sources defines VERIFY_CHECKSUM
VERIFY_CHECKSUM == FALSE

-----------------------------------------------------------------------------
(* Checksum and integer packing of the legacy driver *)

\* a variant of generate_checksum whose loop stops one byte early
generate_checksum_short(bytes, length) ==
  SumSeq(SubSeq(bytes, 1, length - 1)) % 256

generate_checksum(bytes, length) == SumSeq(SubSeq(bytes, 1, length)) % 256

\* a variant of verify_checksum that compares the low seven bits only
verify_checksum_low7(bytes, length, checksum) ==
  generate_checksum(bytes, length) % 128 = checksum % 128

verify_checksum(bytes, length, checksum) ==
  generate_checksum(bytes, length) = checksum

\* the four bytes pack_int stores
pack_int(num) ==
  Bind(num, LAMBDA w :
    << Field(w, 24, 8), Field(w, 16, 8), Field(w, 8, 8), Field(w, 0, 8) >>)

pack_short(num) == << (num \div 256) % 256, num % 256 >>

\* the word unpack_int reads from bytes[i .. i+3]
unpack_int(bytes, i) ==
  Hex32(At(bytes, i), At(bytes, i + 1), At(bytes, i + 2), At(bytes, i + 3))

unpack_short(bytes, i) == (At(bytes, i) * 256 + At(bytes, i + 1)) % 65536

-----------------------------------------------------------------------------
(* The device at the far end of the serial line.  It answers a query       *)
(* (address byte with bit 7 set) with the payload and its checksum, and a  *)
(* well-formed command with ACK after storing the payload; it answers any  *)
(* other frame with NACK.                                                  *)

RegBytes(regs) ==
  pack_int(regs[1]) \o pack_int(regs[2]) \o pack_int(regs[3])
    \o pack_int(regs[4]) \o pack_int(regs[5]) \o pack_int(regs[6])

BytesRegs(p) ==
  << unpack_int(p, 0), unpack_int(p, 4), unpack_int(p, 8),
     unpack_int(p, 12), unpack_int(p, 16), unpack_int(p, 20) >>

\* opcode and channel selector of an address byte
Opcode(a) == And8(a, \Hf7)
Channel(a) == And8(a, \H08)

\* payload size the wire protocol gives each opcode (-1: no such opcode)
PayloadSize(op) ==
  CASE op = \H80 \/ op = \H00 -> 24
    [] op = \H81 \/ op = \H01 -> 4
    [] op = \H82 \/ op = \H02 -> 16
    [] op = \H83 \/ op = \H03 -> 4
    [] op = \H86 \/ op = \H06 -> 1
    [] op = \H40 -> 0
    [] OTHER -> -1

DevicePayload(d, a) ==
  LET op == Opcode(a)
      s == Channel(a)
  IN CASE op = \H80 -> RegBytes(d.regs[s])
       [] op = \H81 -> pack_int(d.ref)
       [] op = \H82 -> d.label[s]
       [] op = \H83 -> pack_short(d.vco[s].min) \o pack_short(d.vco[s].max)
       [] op = \H86 -> << d.status >>
       [] OTHER -> << >>

DeviceStore(d, a, p) ==
  LET op == Opcode(a)
      s == Channel(a)
  IN CASE op = \H00 -> [d EXCEPT !.regs[s] = BytesRegs(p)]
       [] op = \H01 -> [d EXCEPT !.ref = unpack_int(p, 0)]
       [] op = \H02 -> [d EXCEPT !.label[s] = p]
       [] op = \H03 -> [d EXCEPT !.vco[s] = [min |-> unpack_short(p, 0),
                                             max |-> unpack_short(p, 2)]]
       [] op = \H06 -> [d EXCEPT !.status =
                           And8(d.status, \Hfe) + And8(p[1], \H01)]
       [] OTHER -> d

\* a command frame the device accepts: address, payload of the opcode's
\* size, checksum over address and payload
WellFormed(frame) ==
  /\ Len(frame) >= 2
  /\ frame[1] < \H80
  /\ PayloadSize(Opcode(frame[1])) >= 0
  /\ Len(frame) = PayloadSize(Opcode(frame[1])) + 2
  /\ frame[Len(frame)] = SumSeq(SubSeq(frame, 1, Len(frame) - 1)) % 256

\* the device's state and reply after it received frame
DeviceReceive(d, frame) ==
  IF frame = << >> THEN [dev |-> d, reply |-> << >>]
  ELSE IF frame[1] >= \H80 /\ Len(frame) = 1
  THEN Bind(DevicePayload(d, frame[1]), LAMBDA p :
         [dev |-> d,
          reply |-> IF PayloadSize(Opcode(frame[1])) < 0 THEN << >>
                    ELSE p \o << SumSeq(p) % 256 >>])
  ELSE IF WellFormed(frame)
  THEN [dev |-> DeviceStore(d, frame[1], SubSeq(frame, 2, Len(frame) - 1)),
        reply |-> << ACK >>]
  ELSE [dev |-> d, reply |-> << NACK >>]

-----------------------------------------------------------------------------
(* The serial transport.  An operation threads a context                   *)
(*   [dev, rx, trace, env, req, rderr]                                     *)
(* through its transport calls: rx holds the bytes received and not yet    *)
(* read, trace the calls made so far, req the number of frames written.    *)
(* env = [fault, junk] is what the line does during the operation: the     *)
(* k-th frame written meets fault[k], and junk is the value of every byte  *)
(* the operation reads before writing it.                                  *)

\* faults of a query: the write fails, no reply, half a reply, a reply with
\* a changed byte, the read fails
QueryFaults == {"wrerr", "noreply", "short", "corrupt", "rderr"}

\* faults of a command: the write fails, no reply, the read fails, the
\* device rejects, the device answers another byte
CommandFaults == {"wrerr", "noreply", "rderr", "nack", "other"}

\* a status byte that is neither ACK nor NACK
OtherReply == \H7e

\* values an uninitialised byte takes
JunkBytes == {\H5a, \H50}

\* what the line can do during an operation of nq queries followed by nc
\* commands
Env(nq, nc) ==
  LET kinds(k) == IF k <= nq THEN QueryFaults ELSE CommandFaults
      hit == {S \in SUBSET (1..(nq + nc)) : Cardinality(S) <= MaxFaults}
      faults == UNION {
                  {[k \in 1..(nq + nc) |-> IF k \in S THEN g[k] ELSE "none"] :
                     g \in {h \in [S -> QueryFaults \cup CommandFaults] :
                              \A k \in S : h[k] \in kinds(k)}} :
                  S \in hit}
  IN [fault : faults, junk : JunkBytes]

Junk(ctx, n) == [i \in 1..n |-> ctx.env.junk]

NewCtx(d, env) ==
  [dev |-> d, rx |-> << >>, trace |-> << >>, env |-> env, req |-> 0,
   rderr |-> FALSE]

\* Serial::write(bytes, n): the first n bytes of the array go to the device
s_write(ctx, bytes, n) ==
  LET k == ctx.req + 1
      kind == IF k \in DOMAIN ctx.env.fault THEN ctx.env.fault[k] ELSE "none"
      ret == IF kind = "wrerr" THEN -1 ELSE n
  IN Bind(SubSeq(bytes, 1, n), LAMBDA frame :
     Bind(DeviceReceive(ctx.dev, frame), LAMBDA r :
       [ctx EXCEPT
          !.dev = IF kind \in {"wrerr", "nack", "other"} THEN ctx.dev
                  ELSE r.dev,
          !.rx = ctx.rx \o
                 (CASE kind \in {"wrerr", "noreply", "rderr"} -> << >>
                    [] kind = "short" ->
                         SubSeq(r.reply, 1, Len(r.reply) \div 2)
                    [] kind = "corrupt" ->
                         IF r.reply = << >> THEN << >>
                         ELSE << (r.reply[1] + 1) % 256 >> \o Tail(r.reply)
                    [] kind = "nack" -> << NACK >>
                    [] kind = "other" -> << OtherReply >>
                    [] OTHER -> r.reply),
          !.req = k,
          !.rderr = (kind = "rderr"),
          !.trace = Append(ctx.trace,
                           [call |-> "write", bytes |-> frame, len |-> n,
                            ret |-> ret])]))

\* Serial::read(&buf[off], n): [ctx, buf, ret]
s_read(ctx, buf, off, n) ==
  LET m == IF Len(ctx.rx) < n THEN Len(ctx.rx) ELSE n
      ret == IF ctx.rderr THEN -1 ELSE m
  IN Bind(IF ctx.rderr THEN << >> ELSE SubSeq(ctx.rx, 1, m), LAMBDA got :
       [ctx |-> [ctx EXCEPT
                   !.rx = IF ctx.rderr THEN << >>
                          ELSE SubSeq(ctx.rx, m + 1, Len(ctx.rx)),
                   !.rderr = FALSE,
                   !.trace = Append(ctx.trace,
                                    [call |-> "read", bytes |-> got,
                                     len |-> n, ret |-> ret])],
        buf |-> Store(buf, off, got),
        ret |-> ret])

-----------------------------------------------------------------------------
(* Legacy driver, queries (ValonSynth.cc).  Each operator is the method    *)
(* run from the context ctx: [ctx, ret, out], ret the bool returned and    *)
(* out the value of the output parameter after the call.                   *)

\* s.write(bytes, 1); s.read(bytes, n); s.read(&checksum, 1); checksum test
\* of a query whose array bytes[n] starts with the address byte
legacy_query(ctx, address, n) ==
  LET bytes == << address >> \o Junk(ctx, n - 1)
  IN Bind(s_write(ctx, bytes, 1), LAMBDA c1 :
     Bind(s_read(c1, bytes, 0, n), LAMBDA r1 :
     Bind(s_read(r1.ctx, Junk(ctx, 1), 0, 1), LAMBDA r2 :
       [ctx |-> r2.ctx, bytes |-> r1.buf, checksum |-> r2.buf[1],
        ok |-> ~VERIFY_CHECKSUM \/ verify_checksum(r1.buf, n, r2.buf[1])])))

get_reference(ctx) ==
  Bind(legacy_query(ctx, \H81, 4), LAMBDA q :
    [ctx |-> q.ctx, ret |-> q.ok,
     out |-> IF q.ok THEN unpack_int(q.bytes, 0)
             ELSE unpack_int(Junk(ctx, 4), 0)])

\* the decoded level of the 2-bit code rfl
rf_level_of(rfl) ==
  CASE rfl = 0 -> -4
    [] rfl = 1 -> -1
    [] rfl = 2 -> 2
    [] rfl = 3 -> 5

get_rf_level(ctx, synth) ==
  Bind(legacy_query(ctx, Or8(\H80, synth), 24), LAMBDA q :
    [ctx |-> q.ctx, ret |-> q.ok,
     out |-> IF q.ok THEN rf_level_of(Field(unpack_int(q.bytes, 16), 3, 2))
             ELSE "unset"])

\* the options get_options extracts from Register2
options_of(reg2) ==
  Bind(reg2, LAMBDA w :
    [low_spur |-> (30 \in w /\ 29 \in w),
     double_ref |-> (25 \in w),
     half_ref |-> (24 \in w),
     r |-> Field(w, 14, 10)])

get_options(ctx, synth) ==
  Bind(legacy_query(ctx, Or8(\H80, synth), 24), LAMBDA q :
    [ctx |-> q.ctx, ret |-> q.ok,
     out |-> IF q.ok THEN options_of(unpack_int(q.bytes, 8))
             ELSE options_of(unpack_int(Junk(ctx, 4), 0))])

get_ref_select(ctx) ==
  Bind(legacy_query(ctx, \H86, 1), LAMBDA q :
    [ctx |-> q.ctx, ret |-> q.ok,
     out |-> IF q.ok THEN (And8(q.bytes[1], 1) # 0) ELSE "unset"])

get_vco_range(ctx, synth) ==
  Bind(legacy_query(ctx, Or8(\H83, synth), 4), LAMBDA q :
    [ctx |-> q.ctx, ret |-> q.ok,
     out |-> IF q.ok THEN [min |-> unpack_short(q.bytes, 0),
                           max |-> unpack_short(q.bytes, 2)]
             ELSE [min |-> unpack_short(Junk(ctx, 2), 0),
                   max |-> unpack_short(Junk(ctx, 2), 0)]])

\* a variant of get_phase_lock with the two masks exchanged
get_phase_lock_exchanged(ctx, synth) ==
  LET mask == IF synth = SynthA THEN \H10 ELSE \H20
  IN Bind(legacy_query(ctx, Or8(\H86, synth), 1), LAMBDA q :
       [ctx |-> q.ctx, ret |-> q.ok,
        out |-> IF q.ok THEN (And8(q.bytes[1], mask) # 0) ELSE "unset"])

get_phase_lock(ctx, synth) ==
  LET mask == IF synth = SynthA THEN \H20 ELSE \H10
  IN Bind(legacy_query(ctx, Or8(\H86, synth), 1), LAMBDA q :
       [ctx |-> q.ctx, ret |-> q.ok,
        out |-> IF q.ok THEN (And8(q.bytes[1], mask) # 0) ELSE "unset"])

get_label(ctx, synth) ==
  Bind(legacy_query(ctx, Or8(\H82, synth), 16), LAMBDA q :
    [ctx |-> q.ctx, ret |-> q.ok,
     out |-> IF q.ok THEN Slice(q.bytes, 0, 16) ELSE "unset"])

-----------------------------------------------------------------------------
(* Frequency arithmetic.  The float quantities of the source are exact     *)
(* non-negative rationals [n, d] in lowest terms; target frequency and     *)
(* channel spacing are whole MHz.  Products are never formed before they   *)
(* are divided, so that every intermediate value fits a TLC integer.       *)

RECURSIVE GCD(_, _)
GCD(a, b) == IF b = 0 THEN a ELSE GCD(b, a % b)

Rat(n, d) == LET g == GCD(n, d) IN [n |-> n \div g, d |-> d \div g]

RMul(x, y) ==
  LET g1 == GCD(x.n, y.d)
      g2 == GCD(y.n, x.d)
  IN IF x.n = 0 \/ y.n = 0 THEN [n |-> 0, d |-> 1]
     ELSE [n |-> (x.n \div g1) * (y.n \div g2),
           d |-> (x.d \div g2) * (y.d \div g1)]

\* x / y, y nonzero
RDiv(x, y) == RMul(x, [n |-> y.d, d |-> y.n])

\* [q, r] with a * b = q * c + r and 0 <= r < c, for 0 <= b < c
RECURSIVE MulDivModLow(_, _, _)
MulDivModLow(a, b, c) ==
  IF a = 0 THEN [q |-> 0, r |-> 0]
  ELSE LET h == MulDivModLow(a \div 2, b, c)
           dbl == IF h.r >= c - h.r
                  THEN [q |-> 2 * h.q + 1, r |-> h.r - (c - h.r)]
                  ELSE [q |-> 2 * h.q, r |-> 2 * h.r]
       IN IF a % 2 = 0 THEN dbl
          ELSE IF dbl.r >= c - b
          THEN [q |-> dbl.q + 1, r |-> dbl.r - (c - b)]
          ELSE [q |-> dbl.q, r |-> dbl.r + b]

\* [q, r] with a * b = q * c + r and 0 <= r < c
MulDivMod(a, b, c) ==
  LET low == MulDivModLow(a, b % c, c)
  IN [q |-> a * (b \div c) + low.q, r |-> low.r]

\* int(x / (d1 * d2) + 0.5) for x >= 0
RoundDiv(x, d1, d2) ==
  LET twice == 2 * (x \div d1)
                 + (IF (x % d1) >= d1 - (x % d1) THEN 1 ELSE 0)
  IN ((twice \div d2) + 1) \div 2

\* what a float-to-int conversion of an infinite or NaN value leaves
\* (undefined behaviour): the bit patterns of INT_MIN and INT_MAX
UndefinedInts == {{31}, 0..30}

-----------------------------------------------------------------------------
(* Legacy driver: EPDF and the frequency registers *)

\* the unsigned word w divided by 1e6; the factors of two that w and 1e6
\* share are cancelled before w is turned into a number
word_mhz(w) ==
  LET t == CHOOSE i \in 0..6 :
             /\ \A j \in 0..(i - 1) : j \notin w
             /\ (i = 6 \/ i \in w)
  IN Rat(BitsToNat(Shr(w, t)), 1000000 \div 2^t)

\* reference, doubled, halved and divided as the options say
epdf_of(reference_hz, opts) ==
  Bind(word_mhz(reference_hz), LAMBDA r0 :
  Bind(IF opts.double_ref THEN RMul(r0, [n |-> 2, d |-> 1]) ELSE r0,
       LAMBDA r1 :
  Bind(IF opts.half_ref THEN RDiv(r1, [n |-> 2, d |-> 1]) ELSE r1,
       LAMBDA r2 :
    IF opts.r > 1 THEN RDiv(r2, [n |-> opts.r, d |-> 1]) ELSE r2)))

getEPDF(ctx, synth) ==
  Bind(get_reference(ctx), LAMBDA ref :
  Bind(get_options(ref.ctx, synth), LAMBDA opt :
    [ctx |-> opt.ctx, epdf |-> epdf_of(ref.out, opt.out)]))

\* a variant of dbf_of without the default branch: codes 5, 6 and 7 keep
\* the 0 a cleared register structure holds
dbf_of_no_default(code) ==
  CASE code = 0 -> 1
    [] code = 1 -> 2
    [] code = 2 -> 4
    [] code = 3 -> 8
    [] code = 4 -> 16
    [] OTHER -> 0

\* the dbf the 3-bit divider_select code stands for
dbf_of(code) ==
  CASE code = 0 -> 1
    [] code = 1 -> 2
    [] code = 2 -> 4
    [] code = 3 -> 8
    [] code = 4 -> 16
    [] OTHER -> 1

unpack_freq_registers(bytes) ==
  Bind(unpack_int(bytes, 0), LAMBDA reg0 :
    [ncount |-> Field(reg0, 15, 16), frac |-> Field(reg0, 3, 12),
     mod |-> Field(unpack_int(bytes, 4), 3, 12),
     dbf |-> dbf_of(Field(unpack_int(bytes, 16), 20, 3))])

\* the float (ncount + float(frac) / mod) * EPDF / dbf, kept as its exact
\* operands; a zero mod gives an infinity or a NaN
frequency_of(regs, epdf) ==
  Bind(regs, LAMBDA v :
    IF v.mod = 0 THEN (IF v.frac = 0 THEN "nan" ELSE "inf")
    ELSE [ncount |-> v.ncount, frac |-> v.frac, mod |-> v.mod,
          epdf |-> epdf, dbf |-> v.dbf])

get_frequency(ctx, synth) ==
  Bind(legacy_query(ctx, Or8(\H80, synth), 24), LAMBDA q :
    IF ~q.ok THEN [ctx |-> q.ctx, ret |-> FALSE, out |-> "unset"]
    ELSE Bind(getEPDF(q.ctx, synth), LAMBDA e :
           [ctx |-> e.ctx, ret |-> TRUE,
            out |-> frequency_of(unpack_freq_registers(q.bytes), e.epdf)]))

\* the divider_select code pack_freq_registers writes for dbf
dbf_code(dbf) ==
  CASE dbf = 1 -> 0
    [] dbf = 2 -> 1
    [] dbf = 4 -> 2
    [] dbf = 8 -> 3
    [] dbf = 16 -> 4
    [] OTHER -> 0

\* a variant of pack_freq_registers whose Register0 mask is 0x00000007: it
\* zeroes the reserved top bit
pack_freq_registers_zeroing(regs, bytes) ==
  LET reg0 == unpack_int(bytes, 0)
      reg1 == unpack_int(bytes, 4)
      reg4 == unpack_int(bytes, 16)
      n0 == (reg0 \cap Hex32(\H00, \H00, \H00, \H07))
              \cup Shl(regs.ncount \cap Hex32(\H00, \H00, \Hff, \Hff), 15)
              \cup Shl(regs.frac \cap Hex32(\H00, \H00, \H0f, \Hff), 3)
      n1 == (reg1 \cap Hex32(\Hff, \Hff, \H80, \H07))
              \cup Shl(regs.mod \cap Hex32(\H00, \H00, \H0f, \Hff), 3)
      n4 == (reg4 \cap Hex32(\Hff, \H8f, \Hff, \Hff))
              \cup Shl(NatToBits(dbf_code(BitsToNat(regs.dbf)), 32), 20)
  IN Store(Store(Store(bytes, 0, pack_int(n0)), 4, pack_int(n1)),
           16, pack_int(n4))

\* the 24 register bytes after pack_freq_registers(regs, bytes); the members
\* of regs are 32-bit words
pack_freq_registers(regs, bytes) ==
  LET reg0 == unpack_int(bytes, 0)
      reg1 == unpack_int(bytes, 4)
      reg4 == unpack_int(bytes, 16)
      n0 == (reg0 \cap Hex32(\H80, \H00, \H00, \H07))
              \cup Shl(regs.ncount \cap Hex32(\H00, \H00, \Hff, \Hff), 15)
              \cup Shl(regs.frac \cap Hex32(\H00, \H00, \H0f, \Hff), 3)
      n1 == (reg1 \cap Hex32(\Hff, \Hff, \H80, \H07))
              \cup Shl(regs.mod \cap Hex32(\H00, \H00, \H0f, \Hff), 3)
      n4 == (reg4 \cap Hex32(\Hff, \H8f, \Hff, \Hff))
              \cup Shl(NatToBits(dbf_code(BitsToNat(regs.dbf)), 32), 20)
  IN Store(Store(Store(bytes, 0, pack_int(n0)), 4, pack_int(n1)),
           16, pack_int(n4))

\* the dbf the legacy loop and clamp choose
RECURSIVE legacy_dbf_loop(_, _, _)
legacy_dbf_loop(frequency, vco_min, dbf) ==
  IF frequency * dbf <= vco_min /\ dbf <= 16
  THEN legacy_dbf_loop(frequency, vco_min, dbf * 2)
  ELSE dbf

\* a variant of legacy_dbf without the clamp that follows the loop
legacy_dbf_unclamped(frequency, vco_min) ==
  legacy_dbf_loop(frequency, vco_min, 1)

legacy_dbf(frequency, vco_min) ==
  LET dbf == legacy_dbf_loop(frequency, vco_min, 1)
  IN IF dbf > 16 THEN 16 ELSE dbf

\* the halving loop that reduces frac/mod
RECURSIVE halve(_, _)
halve(frac, mod) ==
  IF frac % 2 = 0 /\ mod % 2 = 0 THEN halve(frac \div 2, mod \div 2)
  ELSE [frac |-> frac, mod |-> mod]

\* ncount, frac and mod before reduction, for vco = frequency * dbf; ub is
\* the outcome of the undefined conversion int(vco / EPDF) when EPDF = 0
raw_freq_vars(vco, chan_spacing, epdf, ub) ==
  IF epdf.n = 0
  THEN [ncount |-> ub, frac |-> RoundDiv(vco, 1, chan_spacing), mod |-> 0]
  ELSE Bind(MulDivMod(vco, epdf.d, epdf.n), LAMBDA qr :
         [ncount |-> NatToBits(qr.q, 32),
          frac |-> RoundDiv(qr.r, epdf.d, chan_spacing),
          mod |-> RoundDiv(epdf.n, epdf.d, chan_spacing)])

\* the registers struct set_frequency fills
legacy_freq_vars(frequency, chan_spacing, vco_min, epdf, ub) ==
  Bind(legacy_dbf(frequency, vco_min), LAMBDA dbf :
  Bind(raw_freq_vars(frequency * dbf, chan_spacing, epdf, ub), LAMBDA raw :
  Bind(IF raw.frac # 0 /\ raw.mod # 0 THEN halve(raw.frac, raw.mod)
       ELSE [frac |-> 0, mod |-> 1], LAMBDA fm :
    [ncount |-> raw.ncount, frac |-> NatToBits(fm.frac, 32),
     mod |-> NatToBits(fm.mod, 32), dbf |-> NatToBits(dbf, 32)])))

-----------------------------------------------------------------------------
(* Legacy driver, commands (ValonSynth.cc) *)

\* a variant of legacy_command that sends the frame a second time when the
\* status byte is not ACK
legacy_command_resend(ctx, bytes, n) ==
  Bind(bytes, LAMBDA b :
  Bind(s_write(ctx, b, n), LAMBDA c1 :
  Bind(s_read(c1, b, 0, 1), LAMBDA r1 :
    IF r1.buf[1] = ACK
    THEN [ctx |-> r1.ctx, ret |-> TRUE, out |-> "none"]
    ELSE Bind(s_write(r1.ctx, b, n), LAMBDA c2 :
         Bind(s_read(c2, b, 0, 1), LAMBDA r2 :
           [ctx |-> r2.ctx, ret |-> (r2.buf[1] = ACK), out |-> "none"])))))

\* s.write(bytes, n); s.read(bytes, 1); return bytes[0] == ACK;
legacy_command(ctx, bytes, n) ==
  Bind(bytes, LAMBDA b :
  Bind(s_write(ctx, b, n), LAMBDA c1 :
  Bind(s_read(c1, b, 0, 1), LAMBDA r1 :
    [ctx |-> r1.ctx, ret |-> (r1.buf[1] = ACK), out |-> "none"])))

\* the read-all-registers query of a set operation: bytes[26] with the
\* payload read into bytes[1..24]
legacy_read_all(ctx, synth) ==
  LET bytes == << Or8(\H80, synth) >> \o Junk(ctx, 25)
  IN Bind(s_write(ctx, bytes, 1), LAMBDA c1 :
     Bind(s_read(c1, bytes, 1, 24), LAMBDA r1 :
     Bind(s_read(r1.ctx, Junk(ctx, 1), 0, 1), LAMBDA r2 :
       [ctx |-> r2.ctx, bytes |-> r1.buf, checksum |-> r2.buf[1]])))

\* the write-all-registers command of a set operation
legacy_write_all(ctx, synth, bytes) ==
  Bind(Store(bytes, 0, << Or8(\H00, synth) >>), LAMBDA b0 :
    legacy_command(ctx, Store(b0, 25, << generate_checksum(b0, 25) >>), 26))

set_frequency(ctx, synth, frequency, chan_spacing, ub) ==
  Bind(get_vco_range(ctx, synth), LAMBDA vcor :
  Bind(getEPDF(vcor.ctx, synth), LAMBDA e :
  Bind(legacy_freq_vars(frequency, chan_spacing, vcor.out.min, e.epdf, ub),
       LAMBDA regs :
  Bind(legacy_read_all(e.ctx, synth), LAMBDA rd :
    IF VERIFY_CHECKSUM /\ ~verify_checksum(rd.bytes, 24, rd.checksum)
    THEN [ctx |-> rd.ctx, ret |-> FALSE, out |-> "none"]
    ELSE legacy_write_all(rd.ctx, synth,
           Store(rd.bytes, 1,
                 pack_freq_registers(regs, Slice(rd.bytes, 1, 24))))))))

set_reference(ctx, frequency) ==
  Bind(<< \H01 >> \o pack_int(frequency) \o Junk(ctx, 1), LAMBDA b0 :
    legacy_command(ctx, Store(b0, 5, << generate_checksum(b0, 5) >>), 6))

\* a variant of the switch with the codes of 2 dBm and 5 dBm exchanged
rf_level_code_exchanged(rf_level) ==
  CASE rf_level = -4 -> 0
    [] rf_level = -1 -> 1
    [] rf_level = 2 -> 3
    [] rf_level = 5 -> 2
    [] OTHER -> -1

\* the 2-bit code of a level (-1: no such level)
rf_level_code(rf_level) ==
  CASE rf_level = -4 -> 0
    [] rf_level = -1 -> 1
    [] rf_level = 2 -> 2
    [] rf_level = 5 -> 3
    [] OTHER -> -1

\* a variant of set_rf_level whose mask is 0xffffffe3: it clears bit 2, a
\* control bit, along with the output_power field
set_rf_level_wide_mask(ctx, synth, rf_level) ==
  LET rfl == rf_level_code(rf_level)
  IN IF rfl = -1 THEN [ctx |-> ctx, ret |-> FALSE, out |-> "none"]
     ELSE Bind(legacy_read_all(ctx, synth), LAMBDA rd :
       IF VERIFY_CHECKSUM
          /\ ~verify_checksum(Slice(rd.bytes, 1, 24), 24, rd.checksum)
       THEN [ctx |-> rd.ctx, ret |-> (ctx.env.junk % 2 = 1), out |-> "none"]
       ELSE legacy_write_all(rd.ctx, synth,
              Store(rd.bytes, 17,
                    pack_int((unpack_int(rd.bytes, 17)
                                \cap Hex32(\Hff, \Hff, \Hff, \He3))
                             \cup Shl(NatToBits(rfl, 32)
                                        \cap Hex32(\H00, \H00, \H00, \H03),
                                      3)))))

\* under VERIFY_CHECKSUM a failed check leaves by "return;": the bool the
\* caller gets is indeterminate
set_rf_level(ctx, synth, rf_level) ==
  LET rfl == rf_level_code(rf_level)
  IN IF rfl = -1 THEN [ctx |-> ctx, ret |-> FALSE, out |-> "none"]
     ELSE Bind(legacy_read_all(ctx, synth), LAMBDA rd :
       IF VERIFY_CHECKSUM
          /\ ~verify_checksum(Slice(rd.bytes, 1, 24), 24, rd.checksum)
       THEN [ctx |-> rd.ctx, ret |-> (ctx.env.junk % 2 = 1), out |-> "none"]
       ELSE legacy_write_all(rd.ctx, synth,
              Store(rd.bytes, 17,
                    pack_int((unpack_int(rd.bytes, 17)
                                \cap Hex32(\Hff, \Hff, \Hff, \He7))
                             \cup Shl(NatToBits(rfl, 32)
                                        \cap Hex32(\H00, \H00, \H00, \H03),
                                      3)))))

\* bool & 1
Bit(b) == IF b THEN {0} ELSE {}

\* a variant of set_options that sets only bit 30 of the low_spur field
set_options_bit30(ctx, synth, opts) ==
  Bind(legacy_read_all(ctx, synth), LAMBDA rd :
    IF VERIFY_CHECKSUM
       /\ ~verify_checksum(Slice(rd.bytes, 1, 24), 24, rd.checksum)
    THEN [ctx |-> rd.ctx, ret |-> (ctx.env.junk % 2 = 1), out |-> "none"]
    ELSE legacy_write_all(rd.ctx, synth,
           Store(rd.bytes, 9,
                 pack_int((unpack_int(rd.bytes, 9)
                             \cap Hex32(\H9c, \H00, \H3f, \Hff))
                          \cup Shl(Bit(opts.low_spur), 30)
                          \cup Shl(Bit(opts.double_ref), 25)
                          \cup Shl(Bit(opts.half_ref), 24)
                          \cup Shl(NatToBits(opts.r, 32)
                                     \cap Hex32(\H00, \H00, \H03, \Hff),
                                   14)))))

set_options(ctx, synth, opts) ==
  Bind(legacy_read_all(ctx, synth), LAMBDA rd :
    IF VERIFY_CHECKSUM
       /\ ~verify_checksum(Slice(rd.bytes, 1, 24), 24, rd.checksum)
    THEN [ctx |-> rd.ctx, ret |-> (ctx.env.junk % 2 = 1), out |-> "none"]
    ELSE legacy_write_all(rd.ctx, synth,
           Store(rd.bytes, 9,
                 pack_int((unpack_int(rd.bytes, 9)
                             \cap Hex32(\H9c, \H00, \H3f, \Hff))
                          \cup Shl(Bit(opts.low_spur), 30)
                          \cup Shl(Bit(opts.low_spur), 29)
                          \cup Shl(Bit(opts.double_ref), 25)
                          \cup Shl(Bit(opts.half_ref), 24)
                          \cup Shl(NatToBits(opts.r, 32)
                                     \cap Hex32(\H00, \H00, \H03, \Hff),
                                   14)))))

set_ref_select(ctx, e_not_i) ==
  Bind(<< \H06, BitsToNat(Bit(e_not_i)) >> \o Junk(ctx, 1), LAMBDA b0 :
    legacy_command(ctx, Store(b0, 2, << generate_checksum(b0, 2) >>), 3))

set_vco_range(ctx, synth, vcor) ==
  Bind(<< Or8(\H03, synth) >> \o pack_short(vcor.min)
         \o pack_short(vcor.max) \o Junk(ctx, 1), LAMBDA b0 :
    legacy_command(ctx, Store(b0, 5, << generate_checksum(b0, 5) >>), 5))

\* the 16 bytes memcpy reads at label: the string, its terminator, and
\* whatever lies behind it
label_memory(ctx, label) == SubSeq(label \o << 0 >> \o Junk(ctx, 16), 1, 16)

set_label(ctx, synth, label) ==
  Bind(<< Or8(\H02, synth) >> \o label_memory(ctx, label) \o Junk(ctx, 1),
       LAMBDA b0 :
    legacy_command(ctx, Store(b0, 17, << generate_checksum(b0, 17) >>), 18))

flash(ctx) ==
  Bind(<< \H40 >> \o Junk(ctx, 1), LAMBDA b0 :
    legacy_command(ctx, Store(b0, 1, << generate_checksum(b0, 1) >>), 2))

-----------------------------------------------------------------------------
(* BitField<std::uint32_t, Index, Width> (BitField.h) on a 32-bit word *)

BitFieldMax(Width) == 0..(Width - 1)
BitFieldMask(Index, Width) == Shl(BitFieldMax(Width), Index)

\* a variant of operator= that drops the other bits of the word:
\* value = (v & Max) << Index
BitField_assign_alone(value, Index, Width, v) ==
  Shl(v \cap BitFieldMax(Width), Index)

\* operator=(v): the word after the assignment
BitField_assign(value, Index, Width, v) ==
  (value \ BitFieldMask(Index, Width))
    \cup Shl(v \cap BitFieldMax(Width), Index)

\* a variant of operator T() without the mask: value >> Index
BitField_get_unmasked(value, Index, Width) ==
  BitsToNat(Shr(value, Index) \ {31})

\* operator T()
BitField_get(value, Index, Width) ==
  BitsToNat(Shr(value, Index) \cap BitFieldMax(Width))

\* a + b and a - b on unsigned 32-bit words
RECURSIVE Add32(_, _)
Add32(a, b) ==
  IF b = {} THEN a
  ELSE Add32((a \cup b) \ (a \cap b), Shl(a \cap b, 1))

Sub32(a, b) == Add32(Add32(a, (0..31) \ b), {0})

\* operator+=(v) and operator-=(v): the word after the operation
BitField_add(value, Index, Width, v) ==
  Add32(value, Shl(v, Index)) \cap BitFieldMask(Index, Width)

BitField_sub(value, Index, Width, v) ==
  Sub32(value, Shl(v, Index)) \cap BitFieldMask(Index, Width)

\* prefix ++ and --
BitField_inc(value, Index, Width) == BitField_add(value, Index, Width, {0})
BitField_dec(value, Index, Width) == BitField_sub(value, Index, Width, {0})

\* postfix ++ and --: the value returned and the word left
BitField_post_inc(value, Index, Width) ==
  [r |-> BitField_get(value, Index, Width),
   value |-> BitField_inc(value, Index, Width)]

BitField_post_dec(value, Index, Width) ==
  [r |-> BitField_get(value, Index, Width),
   value |-> BitField_dec(value, Index, Width)]

-----------------------------------------------------------------------------
(* Template driver Valon::Synth<INTERFACE> (ValonSynth.inl).  A parameter  *)
(* pack of readWithChecksum / writeWithAcknowledge stands for the caller's *)
(* variables, whose bytes boost::asio::buffer exposes in host order.       *)

\* the build targets a little-endian host
HostLittleEndian == TRUE

host_bytes32(w) ==
  Bind(w, LAMBDA v :
    IF HostLittleEndian
    THEN << Field(v, 0, 8), Field(v, 8, 8), Field(v, 16, 8), Field(v, 24, 8) >>
    ELSE pack_int(v))

host_word32(bytes, i) ==
  IF HostLittleEndian
  THEN Hex32(At(bytes, i + 3), At(bytes, i + 2), At(bytes, i + 1), At(bytes, i))
  ELSE unpack_int(bytes, i)

host_bytes16(n) == IF HostLittleEndian THEN << n % 256, (n \div 256) % 256 >>
                   ELSE pack_short(n)

host_short16(bytes, i) ==
  IF HostLittleEndian THEN At(bytes, i) + 256 * At(bytes, i + 1)
  ELSE unpack_short(bytes, i)

\* std::uint32_t gcd(a, b)
RECURSIVE gcd(_, _)
gcd(a, b) == IF b # 0 THEN gcd(b, a % b) ELSE a

\* generateChecksum over the concatenation of the buffers
generateChecksum(data) == SumSeq(data) % 256

verifyChecksum(data, checksum) == generateChecksum(data) = checksum

\* readWithChecksum(address, ts...): the n bytes of the variables ts after
\* the call; neither the error code nor the checksum changes anything
readWithChecksum(ctx, address, n) ==
  Bind(s_write(ctx, << address >>, 1), LAMBDA c1 :
  Bind(s_read(c1, Junk(ctx, n), 0, n), LAMBDA r1 :
  Bind(s_read(r1.ctx, Junk(ctx, 1), 0, 1), LAMBDA r2 :
    [ctx |-> r2.ctx, data |-> r1.buf,
     verified |-> verifyChecksum(r1.buf, r2.buf[1])])))

\* writeWithAcknowledge(address, ts...): payload is the bytes of ts
writeWithAcknowledge(ctx, address, payload) ==
  Bind(<< address >> \o payload, LAMBDA data :
  Bind(data \o << generateChecksum(data) >>, LAMBDA frame :
  Bind(s_write(ctx, frame, Len(frame)), LAMBDA c1 :
  Bind(s_read(c1, << NACK >>, 0, 1), LAMBDA r1 :
    [ctx |-> r1.ctx, ret |-> "void", out |-> "none",
     acknowledge |-> r1.buf[1]]))))

getAllRegisters(ctx, id) ==
  Bind(readWithChecksum(ctx, Or8(\H80, id), 24), LAMBDA q :
    [ctx |-> q.ctx,
     regs |-> << host_word32(q.data, 0), host_word32(q.data, 4),
                 host_word32(q.data, 8), host_word32(q.data, 12),
                 host_word32(q.data, 16), host_word32(q.data, 20) >>])

\* reg5 is not passed on to writeWithAcknowledge
setAllRegisters(ctx, id, regs) ==
  Bind(regs, LAMBDA v :
    writeWithAcknowledge(ctx, Or8(\H00, id),
      host_bytes32(v[1]) \o host_bytes32(v[2]) \o host_bytes32(v[3])
        \o host_bytes32(v[4]) \o host_bytes32(v[5])))

flashSettings(ctx) == writeWithAcknowledge(ctx, \H40, << >>)

\* getOptions ends without a return statement: the tuple the caller gets is
\* indeterminate
getOptions(ctx, id) ==
  Bind(getAllRegisters(ctx, id), LAMBDA g :
  Bind(unpack_int(Junk(ctx, 4), 0), LAMBDA w :
    [ctx |-> g.ctx, ret |-> "indeterminate",
     out |-> [double_ref |-> (BitField_get(w, 25, 1) # 0),
              half_ref |-> (BitField_get(w, 24, 1) # 0),
              r |-> BitField_get(w, 14, 10),
              low_spur |-> (BitField_get(w, 29, 2) # 0)]]))

\* the float nearest to the unsigned word w (24-bit significand, ties to
\* even), as [m, k] standing for m * 2^k
float_of_word(w) ==
  LET h == IF w = {} THEN 0 ELSE CHOOSE i \in w : \A j \in w : j <= i
      k == IF h <= 23 THEN 0 ELSE h - 23
  IN Bind(BitsToNat(Shr(w, k)), LAMBDA m0 :
     Bind(BitsToNat(w \cap (0..(k - 1))), LAMBDA rem :
       [m |-> IF k > 0 /\ (rem > 2^(k - 1)
                             \/ (rem = 2^(k - 1) /\ m0 % 2 = 1))
              THEN m0 + 1 ELSE m0,
        k |-> k]))

\* the float f divided by 1e6
float_mhz(f) ==
  LET t == IF f.k < 6 THEN f.k ELSE 6
  IN Rat(f.m * 2^(f.k - t), 1000000 \div 2^t)

getReferenceFrequency(ctx) ==
  Bind(readWithChecksum(ctx, \H81, 4), LAMBDA q :
    [ctx |-> q.ctx, ret |-> "value",
     out |-> float_of_word(host_word32(q.data, 0))])

\* getEPDF of the template driver
tpl_getEPDF(ctx, id) ==
  Bind(getReferenceFrequency(ctx), LAMBDA ref :
  Bind(getOptions(ref.ctx, id), LAMBDA opt :
  Bind(float_mhz(ref.out), LAMBDA r0 :
  Bind(IF opt.out.double_ref THEN RMul(r0, [n |-> 2, d |-> 1]) ELSE r0,
       LAMBDA r1 :
  Bind(IF opt.out.half_ref THEN RDiv(r1, [n |-> 2, d |-> 1]) ELSE r1,
       LAMBDA r2 :
    [ctx |-> opt.ctx,
     epdf |-> IF opt.out.r > 1 THEN RDiv(r2, [n |-> opt.out.r, d |-> 1])
              ELSE r2])))))

readFrequencyRegisters(ctx, id) ==
  Bind(getAllRegisters(ctx, id), LAMBDA g :
  Bind(BitField_get(g.regs[5], 20, 3), LAMBDA divider_select :
    [ctx |-> g.ctx,
     regs |-> [ncount |-> BitField_get(g.regs[1], 15, 16),
               frac |-> BitField_get(g.regs[1], 3, 12),
               mod |-> BitField_get(g.regs[2], 3, 12),
               dbf |-> CASE divider_select = 0 -> 1
                         [] divider_select = 1 -> 2
                         [] divider_select = 2 -> 4
                         [] divider_select = 3 -> 8
                         [] divider_select = 4 -> 16
                         [] OTHER -> 1]]))

getFrequency(ctx, id) ==
  Bind(readFrequencyRegisters(ctx, id), LAMBDA f :
  Bind(tpl_getEPDF(f.ctx, id), LAMBDA e :
    [ctx |-> e.ctx, ret |-> "value", out |-> frequency_of(f.regs, e.epdf)]))

\* the std::string built from the unterminated char label[16]: the bytes up
\* to the first zero of the array and of what lies behind it
RECURSIVE c_string(_)
c_string(mem) ==
  IF mem = << >> \/ Head(mem) = 0 THEN << >>
  ELSE << Head(mem) >> \o c_string(Tail(mem))

getLabel(ctx, id) ==
  Bind(readWithChecksum(ctx, Or8(\H82, id), 16), LAMBDA q :
    [ctx |-> q.ctx, ret |-> "value",
     out |-> c_string(q.data \o Junk(ctx, 1) \o << 0 >>)])

\* the switch of getRfLevel over reg4.output_power; rf_level starts as -4
output_power_level(code) ==
  CASE code = 0 -> -4
    [] code = 1 -> -1
    [] code = 2 -> 2
    [] code = 3 -> 5
    [] OTHER -> -4

getRfLevel(ctx, id) ==
  Bind(getAllRegisters(ctx, id), LAMBDA g :
    [ctx |-> g.ctx, ret |-> "value",
     out |-> output_power_level(BitField_get(g.regs[5], 3, 2))])

getVcoRange(ctx, id) ==
  Bind(readWithChecksum(ctx, Or8(\H83, id), 4), LAMBDA q :
    [ctx |-> q.ctx, ret |-> "value",
     out |-> [min |-> host_short16(q.data, 0),
              max |-> host_short16(q.data, 2)]])

isPhaseLocked(ctx, id) ==
  LET mask == IF id = SynthA THEN \H20 ELSE \H10
  IN Bind(readWithChecksum(ctx, Or8(\H86, id), 1), LAMBDA q :
       [ctx |-> q.ctx, ret |-> "value",
        out |-> (And8(q.data[1], mask) # 0)])

isReferenceExternal(ctx) ==
  Bind(readWithChecksum(ctx, \H86, 1), LAMBDA q :
    [ctx |-> q.ctx, ret |-> "value", out |-> (And8(q.data[1], \H01) # 0)])

-----------------------------------------------------------------------------
(* Template driver, commands *)

RECURSIVE tpl_dbf_loop(_, _, _)
tpl_dbf_loop(megahertz, vco_low, dbf) ==
  IF megahertz * dbf <= vco_low /\ dbf < 16
  THEN tpl_dbf_loop(megahertz, vco_low, dbf * 2)
  ELSE dbf

\* ncount, frac, mod and dbf that setFrequency hands on
tpl_freq_vars(megahertz, channel_spacing, vco_low, epdf, ub) ==
  Bind(tpl_dbf_loop(megahertz, vco_low, 1), LAMBDA dbf :
  Bind(raw_freq_vars(megahertz * dbf, channel_spacing, epdf, ub), LAMBDA raw :
  Bind(gcd(raw.frac, raw.mod), LAMBDA gcf :
  Bind(IF raw.frac # 0 /\ raw.mod # 0
       THEN [frac |-> raw.frac \div gcf, mod |-> raw.mod \div gcf]
       ELSE [frac |-> 0, mod |-> 1], LAMBDA fm :
    [ncount |-> raw.ncount, frac |-> NatToBits(fm.frac, 32),
     mod |-> NatToBits(fm.mod, 32), dbf |-> dbf]))))

writeFrequencyRegisters(ctx, id, v) ==
  LET raw_dbf == CASE v.dbf = 1 -> 0
                   [] v.dbf = 2 -> 1
                   [] v.dbf = 4 -> 2
                   [] v.dbf = 8 -> 3
                   [] v.dbf = 16 -> 4
                   [] OTHER -> 0
  IN Bind(getAllRegisters(ctx, id), LAMBDA g :
       setAllRegisters(g.ctx, id,
         << BitField_assign(BitField_assign(g.regs[1], 15, 16, v.ncount),
                            3, 12, v.frac),
            BitField_assign(g.regs[2], 3, 12, v.mod),
            g.regs[3], g.regs[4],
            BitField_assign(g.regs[5], 20, 3, NatToBits(raw_dbf, 32)),
            g.regs[6] >>))

setFrequency(ctx, id, megahertz, channel_spacing, ub) ==
  Bind(getVcoRange(ctx, id), LAMBDA vcor :
  Bind(tpl_getEPDF(vcor.ctx, id), LAMBDA e :
  Bind(tpl_freq_vars(megahertz, channel_spacing, vcor.out.min, e.epdf, ub),
       LAMBDA v :
    writeFrequencyRegisters(e.ctx, id, v))))

\* the 16 bytes at raw_label.c_str() after reserve(16)
setLabel(ctx, id, label) ==
  writeWithAcknowledge(ctx, Or8(\H02, id), label_memory(ctx, label))

setOptions(ctx, id, double_ref, half_ref, divider, low_spur) ==
  Bind(getAllRegisters(ctx, id), LAMBDA g :
  Bind(BitField_assign(g.regs[3], 25, 1, Bit(double_ref)), LAMBDA a :
  Bind(BitField_assign(a, 24, 1, Bit(half_ref)), LAMBDA b :
  Bind(BitField_assign(b, 14, 10, NatToBits(divider, 32)), LAMBDA c :
    setAllRegisters(g.ctx, id,
      << g.regs[1], g.regs[2],
         BitField_assign(c, 29, 2, IF low_spur THEN {0, 1} ELSE {}),
         g.regs[4], g.regs[5], g.regs[6] >>)))))

setReferenceExternal(ctx, is_external) ==
  writeWithAcknowledge(ctx, \H06, << IF is_external THEN \H01 ELSE \H00 >>)

\* hertz is a float holding the whole number given as the word ref_frequency
setReferenceFrequency(ctx, ref_frequency) ==
  writeWithAcknowledge(ctx, \H81, host_bytes32(ref_frequency))

\* the switch of setRfLevel; its default case leaves raw_rfl uninitialised
raw_rfl_of(ctx, rf_level) ==
  CASE rf_level = -4 -> {}
    [] rf_level = -1 -> {0}
    [] rf_level = 2 -> {1}
    [] rf_level = 5 -> {0, 1}
    [] OTHER -> unpack_int(Junk(ctx, 4), 0)

setRfLevel(ctx, id, rf_level) ==
  Bind(raw_rfl_of(ctx, rf_level), LAMBDA raw_rfl :
  Bind(getAllRegisters(ctx, id), LAMBDA g :
    setAllRegisters(g.ctx, id,
      << g.regs[1], g.regs[2], g.regs[3], g.regs[4],
         BitField_assign(g.regs[5], 3, 2, raw_rfl), g.regs[6] >>)))

setVcoRange(ctx, id, low, high) ==
  writeWithAcknowledge(ctx, Or8(\H03, id),
                       host_bytes16(low) \o host_bytes16(high))

-----------------------------------------------------------------------------
(* Device states and operation arguments the model draws from *)

\* two register files, each the bitwise complement of the other: in RegsX
\* ncount = 240, frac = 1, mod = 1, every option, output_power and
\* divider_select are 0 and every other bit is 1
RegsX == << Hex32(\H80, \H78, \H00, \H0d), Hex32(\Hff, \Hff, \H80, \H09),
            Hex32(\H9c, \H00, \H3f, \Hfa), Hex32(\Hff, \Hff, \Hff, \Hff),
            Hex32(\Hff, \H8f, \Hff, \He7), Hex32(\Hff, \Hff, \Hff, \Hff) >>

RegsY == [i \in 1..6 |-> (0..31) \ RegsX[i]]

LabelA == << \H53, \H59, \H4e, \H54, \H48, \H20, \H41, \H20,
             \H20, \H20, \H20, \H20, \H20, \H20, \H20, \H20 >>
LabelB == << \H4c, \H4f >>
LabelC == [i \in 1..17 |-> \H40 + i]

Devices ==
  { [regs |-> (SynthA :> RegsX @@ SynthB :> RegsY),
     ref |-> NatToBits(10000000, 32),
     vco |-> (SynthA :> [min |-> 2300, max |-> 4800]
              @@ SynthB :> [min |-> 2200, max |-> 4400]),
     label |-> (SynthA :> LabelA @@ SynthB :> LabelA),
     status |-> \H21],
    [regs |-> (SynthA :> RegsY @@ SynthB :> RegsX),
     ref |-> NatToBits(20000000, 32),
     vco |-> (SynthA :> [min |-> 2200, max |-> 4400]
              @@ SynthB :> [min |-> 2300, max |-> 4800]),
     label |-> (SynthA :> LabelA @@ SynthB :> LabelA),
     status |-> \Hde] }

Frequencies == {1203, 2410}
ChanSpacings == {1}
RfLevels == {-4, -1, 2, 5, 3}
OptionSets == { [low_spur |-> TRUE, double_ref |-> FALSE, half_ref |-> TRUE,
                 r |-> 1],
                [low_spur |-> FALSE, double_ref |-> TRUE, half_ref |-> FALSE,
                 r |-> 1500] }
References == {NatToBits(10000000, 32), NatToBits(20000000, 32)}
VcoRanges == {[min |-> 2300, max |-> 4800], [min |-> 2200, max |-> 4400]}
Labels == {LabelA, LabelB, LabelC}

NoCall == [op |-> "none", args |-> << >>, ret |-> "none", out |-> "none",
           trace |-> << >>]

-----------------------------------------------------------------------------
(* The state machine: the caller is idle or holds the result of the call   *)
(* it made; a call runs the whole method against the device.               *)

Init ==
  /\ dev \in Devices
  /\ last = NoCall
  /\ pc = "idle"

\* the caller invokes op with args; r is the method's outcome and ret how
\* the caller sees what it returned
Call(op, args, r, ret) ==
  /\ pc = "idle"
  /\ \E v \in {r} :
       /\ dev' = v.ctx.dev
       /\ last' = [op |-> op, args |-> args, ret |-> ret[v.ret],
                   out |-> v.out, trace |-> v.ctx.trace]
  /\ pc' = "returned"

\* a call of the legacy driver, which returns a bool
CallLegacy(op, args, r) ==
  Call(op, args, r, [b \in BOOLEAN |-> IF b THEN "true" ELSE "false"])

\* a call of the template driver, which returns a value or nothing
CallTemplate(op, args, r) ==
  Call(op, args, r, [t \in {"void", "value", "indeterminate"} |-> t])

call_get_frequency ==
  \E synth \in Synthesizer, env \in Env(3, 0) :
    CallLegacy("get_frequency", << synth >>,
               get_frequency(NewCtx(dev, env), synth))

call_set_frequency ==
  \E synth \in Synthesizer, f \in Frequencies, sp \in ChanSpacings,
     env \in Env(4, 1), ub \in UndefinedInts :
    CallLegacy("set_frequency", << synth, f, sp >>,
         set_frequency(NewCtx(dev, env), synth, f, sp, ub))

call_get_reference ==
  \E env \in Env(1, 0) :
    CallLegacy("get_reference", << >>,
               get_reference(NewCtx(dev, env)))

call_set_reference ==
  \E f \in References, env \in Env(0, 1) :
    CallLegacy("set_reference", << f >>,
               set_reference(NewCtx(dev, env), f))

call_get_rf_level ==
  \E synth \in Synthesizer, env \in Env(1, 0) :
    CallLegacy("get_rf_level", << synth >>,
               get_rf_level(NewCtx(dev, env), synth))

call_set_rf_level ==
  \E synth \in Synthesizer, l \in RfLevels, env \in Env(1, 1) :
    CallLegacy("set_rf_level", << synth, l >>,
         set_rf_level(NewCtx(dev, env), synth, l))

call_get_options ==
  \E synth \in Synthesizer, env \in Env(1, 0) :
    CallLegacy("get_options", << synth >>,
               get_options(NewCtx(dev, env), synth))

call_set_options ==
  \E synth \in Synthesizer, o \in OptionSets, env \in Env(1, 1) :
    CallLegacy("set_options", << synth, o >>,
         set_options(NewCtx(dev, env), synth, o))

call_get_ref_select ==
  \E env \in Env(1, 0) :
    CallLegacy("get_ref_select", << >>,
               get_ref_select(NewCtx(dev, env)))

call_set_ref_select ==
  \E e \in BOOLEAN, env \in Env(0, 1) :
    CallLegacy("set_ref_select", << e >>,
               set_ref_select(NewCtx(dev, env), e))

call_get_vco_range ==
  \E synth \in Synthesizer, env \in Env(1, 0) :
    CallLegacy("get_vco_range", << synth >>,
               get_vco_range(NewCtx(dev, env), synth))

call_set_vco_range ==
  \E synth \in Synthesizer, v \in VcoRanges, env \in Env(0, 1) :
    CallLegacy("set_vco_range", << synth, v >>,
         set_vco_range(NewCtx(dev, env), synth, v))

call_get_phase_lock ==
  \E synth \in Synthesizer, env \in Env(1, 0) :
    CallLegacy("get_phase_lock", << synth >>,
         get_phase_lock(NewCtx(dev, env), synth))

call_get_label ==
  \E synth \in Synthesizer, env \in Env(1, 0) :
    CallLegacy("get_label", << synth >>,
               get_label(NewCtx(dev, env), synth))

call_set_label ==
  \E synth \in Synthesizer, l \in Labels, env \in Env(0, 1) :
    CallLegacy("set_label", << synth, l >>,
               set_label(NewCtx(dev, env), synth, l))

call_flash ==
  \E env \in Env(0, 1) : CallLegacy("flash", << >>, flash(NewCtx(dev, env)))

call_flashSettings ==
  \E env \in Env(0, 1) :
    CallTemplate("flashSettings", << >>,
               flashSettings(NewCtx(dev, env)))

call_getFrequency ==
  \E id \in Synthesizer, env \in Env(3, 0) :
    CallTemplate("getFrequency", << id >>,
               getFrequency(NewCtx(dev, env), id))

call_getLabel ==
  \E id \in Synthesizer, env \in Env(1, 0) :
    CallTemplate("getLabel", << id >>,
               getLabel(NewCtx(dev, env), id))

call_getOptions ==
  \E id \in Synthesizer, env \in Env(1, 0) :
    CallTemplate("getOptions", << id >>,
               getOptions(NewCtx(dev, env), id))

call_getReferenceFrequency ==
  \E env \in Env(1, 0) :
    CallTemplate("getReferenceFrequency", << >>,
         getReferenceFrequency(NewCtx(dev, env)))

call_getRfLevel ==
  \E id \in Synthesizer, env \in Env(1, 0) :
    CallTemplate("getRfLevel", << id >>,
               getRfLevel(NewCtx(dev, env), id))

call_getVcoRange ==
  \E id \in Synthesizer, env \in Env(1, 0) :
    CallTemplate("getVcoRange", << id >>,
               getVcoRange(NewCtx(dev, env), id))

call_isPhaseLocked ==
  \E id \in Synthesizer, env \in Env(1, 0) :
    CallTemplate("isPhaseLocked", << id >>,
               isPhaseLocked(NewCtx(dev, env), id))

call_isReferenceExternal ==
  \E env \in Env(1, 0) :
    CallTemplate("isReferenceExternal", << >>,
               isReferenceExternal(NewCtx(dev, env)))

call_setFrequency ==
  \E id \in Synthesizer, f \in Frequencies, sp \in ChanSpacings,
     env \in Env(4, 1), ub \in UndefinedInts :
    CallTemplate("setFrequency", << id, f, sp >>,
         setFrequency(NewCtx(dev, env), id, f, sp, ub))

call_setLabel ==
  \E id \in Synthesizer, l \in Labels, env \in Env(0, 1) :
    CallTemplate("setLabel", << id, l >>,
               setLabel(NewCtx(dev, env), id, l))

call_setOptions ==
  \E id \in Synthesizer, o \in OptionSets, env \in Env(1, 1) :
    CallTemplate("setOptions", << id, o >>,
         setOptions(NewCtx(dev, env), id, o.double_ref, o.half_ref, o.r,
                    o.low_spur))

call_setReferenceExternal ==
  \E e \in BOOLEAN, env \in Env(0, 1) :
    CallTemplate("setReferenceExternal", << e >>,
         setReferenceExternal(NewCtx(dev, env), e))

call_setReferenceFrequency ==
  \E f \in References, env \in Env(0, 1) :
    CallTemplate("setReferenceFrequency", << f >>,
         setReferenceFrequency(NewCtx(dev, env), f))

call_setRfLevel ==
  \E id \in Synthesizer, l \in RfLevels, env \in Env(1, 1) :
    CallTemplate("setRfLevel", << id, l >>,
               setRfLevel(NewCtx(dev, env), id, l))

call_setVcoRange ==
  \E id \in Synthesizer, v \in VcoRanges, env \in Env(0, 1) :
    CallTemplate("setVcoRange", << id, v >>,
         setVcoRange(NewCtx(dev, env), id, v.min, v.max))

Next ==
  \/ call_get_frequency
  \/ call_set_frequency
  \/ call_get_reference
  \/ call_set_reference
  \/ call_get_rf_level
  \/ call_set_rf_level
  \/ call_get_options
  \/ call_set_options
  \/ call_get_ref_select
  \/ call_set_ref_select
  \/ call_get_vco_range
  \/ call_set_vco_range
  \/ call_get_phase_lock
  \/ call_get_label
  \/ call_set_label
  \/ call_flash
  \/ call_flashSettings
  \/ call_getFrequency
  \/ call_getLabel
  \/ call_getOptions
  \/ call_getReferenceFrequency
  \/ call_getRfLevel
  \/ call_getVcoRange
  \/ call_isPhaseLocked
  \/ call_isReferenceExternal
  \/ call_setFrequency
  \/ call_setLabel
  \/ call_setOptions
  \/ call_setReferenceExternal
  \/ call_setReferenceFrequency
  \/ call_setRfLevel
  \/ call_setVcoRange

Spec == Init /\ [][Next]_vars


-----------------------------------------------------------------------------
\* Observations of a returned call: the frames it handed to the transport and
\* the bytes the transport gave back, in the order of the calls

LegacyQueryOps ==
  {"get_frequency", "get_reference", "get_rf_level", "get_options",
   "get_ref_select", "get_vco_range", "get_phase_lock", "get_label"}

LegacyWriteOps ==
  {"set_frequency", "set_reference", "set_rf_level", "set_options",
   "set_ref_select", "set_vco_range", "set_label", "flash"}

LegacyOps == LegacyQueryOps \cup LegacyWriteOps

TemplateQueryOps ==
  {"getFrequency", "getLabel", "getOptions", "getReferenceFrequency",
   "getRfLevel", "getVcoRange", "isPhaseLocked", "isReferenceExternal"}

TemplateWriteOps ==
  {"flashSettings", "setFrequency", "setLabel", "setOptions",
   "setReferenceExternal", "setReferenceFrequency", "setRfLevel",
   "setVcoRange"}

LegacyRmwOps == {"set_frequency", "set_rf_level", "set_options"}
TemplateRmwOps == {"setFrequency", "setRfLevel", "setOptions"}
RmwOps == LegacyRmwOps \cup TemplateRmwOps

Reported(b) == last.ret = (IF b THEN "true" ELSE "false")

\* positions of the frames in the trace
FrameIdx == {i \in 1..Len(last.trace) : last.trace[i].call = "write"}
IsQueryFrame(e) == e.call = "write" /\ e.bytes[1] >= \H80
IsCommandFrame(e) == e.call = "write" /\ e.bytes[1] < \H80
QueryIdx == {i \in FrameIdx : IsQueryFrame(last.trace[i])}
CommandIdx == {i \in FrameIdx : IsCommandFrame(last.trace[i])}

\* a transport call moved exactly the bytes it was asked to move
Complete(e) == e.ret = e.len

\* the query at position i: its frame, its payload read, its checksum read
QueryTransportFailed(i) ==
  \/ ~Complete(last.trace[i])
  \/ ~Complete(last.trace[i + 1])
  \/ ~Complete(last.trace[i + 2])
QueryChecksumMismatch(i) ==
  /\ ~QueryTransportFailed(i)
  /\ last.trace[i + 2].bytes[1] # SumSeq(last.trace[i + 1].bytes) % 256
QueryFailed(i) == QueryTransportFailed(i) \/ QueryChecksumMismatch(i)

\* the read of all registers that opens a read-modify-write is the last
\* query of the call
RmwReadIdx == CHOOSE i \in QueryIdx : \A j \in QueryIdx : j <= i
WriteAllSent ==
  \E i \in CommandIdx : Opcode(last.trace[i].bytes[1]) = \H00

\* a reply byte was received for the command frame and it is ACK
AckReceived ==
  LET n == Len(last.trace)
  IN /\ n >= 2
     /\ IsCommandFrame(last.trace[n - 1])
     /\ last.trace[n].call = "read"
     /\ last.trace[n].ret = 1
     /\ last.trace[n].bytes = << ACK >>

-----------------------------------------------------------------------------
\* C1: in every read-modify-write set operation (set_frequency, set_rf_level,
\* set_options, and setFrequency/writeFrequencyRegisters, setRfLevel,
\* setOptions of the template driver), if the read of all registers fails (a
\* transport error, fewer than 24+1 bytes received, or a checksum mismatch)
\* then no write-all-registers frame is sent and the operation reports
\* failure.
C1_FailedReadBlocksWrite ==
  (last.op \in RmwOps /\ QueryIdx # {} /\ QueryFailed(RmwReadIdx))
    => (~WriteAllSent /\ Reported(FALSE))

\* C2: a write operation reports success if and only if a reply byte was
\* actually received for its command frame and that byte is 0x06; when no
\* reply byte arrives the operation reports failure.
C2_SuccessIffAckReceived ==
  last.op \in LegacyWriteOps \cup TemplateWriteOps
    => (Reported(TRUE) <=> AckReceived)

\* C3: in every query operation, when the checksum byte received after the
\* payload differs from the sum of the received payload bytes modulo 256, the
\* operation reports failure.
C3_ChecksumMismatchFails ==
  (last.op \in LegacyQueryOps \cup TemplateQueryOps
     /\ \E i \in QueryIdx : QueryChecksumMismatch(i))
    => Reported(FALSE)

\* C4: when any transport write or read of an operation returns an error or
\* moves fewer bytes than requested, the operation reports failure.
C4_TransportFailureFails ==
  (last.op \in LegacyOps
     /\ \E i \in 1..Len(last.trace) : ~Complete(last.trace[i]))
    => Reported(FALSE)

-----------------------------------------------------------------------------
\* the k-th register word (k = 0..5) of a big-endian register payload
WordAt(p, k) == Hex32(p[4 * k + 1], p[4 * k + 2], p[4 * k + 3], p[4 * k + 4])

\* the register bits each legacy read-modify-write is said to change
NamedFields(op) ==
  CASE op = "set_frequency" ->
         << 3..30, 3..14, {}, {}, 20..22, {} >>
    [] op = "set_rf_level" ->
         << {}, {}, {}, {}, 3..4, {} >>
    [] op = "set_options" ->
         << {}, {}, (14..25) \cup (29..30), {}, {}, {} >>

\* the command frame of a call that sent exactly one
TheCommand == last.trace[CHOOSE i \in CommandIdx : TRUE].bytes
RmwPayloadRead == last.trace[RmwReadIdx + 1].bytes
RmwPayloadWritten == SubSeq(TheCommand, 2, 25)

\* no transport call of the operation failed or came up short
AllComplete == \A i \in 1..Len(last.trace) : Complete(last.trace[i])

RmwSucceeded ==
  /\ last.op \in LegacyRmwOps
  /\ QueryIdx # {} /\ ~QueryFailed(RmwReadIdx)
  /\ CommandIdx # {} /\ Reported(TRUE)

\* C5: when the read and the write of set_frequency, set_rf_level or
\* set_options both succeed, the 24-byte payload written equals the payload
\* just read on every bit outside the fields the operation names: ncount,
\* frac, mod and dbf (Register0 bits 3..30, Register1 bits 3..14, Register4
\* bits 20..22) for set_frequency, output_power (Register4 bits 3..4) for
\* set_rf_level, and double_r, half_r, r and low_spur (Register2 bits 14..25
\* and 29..30) for set_options; Register3 and Register5 are written back
\* unchanged and no reserved bit is zeroed.
C5_RmwPreservesOtherBits ==
  RmwSucceeded =>
    /\ Len(TheCommand) = 26
    /\ \A k \in 0..5 :
         WordAt(RmwPayloadWritten, k) \ NamedFields(last.op)[k + 1]
           = WordAt(RmwPayloadRead, k) \ NamedFields(last.op)[k + 1]

\* a set_frequency that succeeded on a register image with the reserved top
\* bit of Register0 and bits of Register5 set, and that changed the payload
C5_Witness ==
  /\ RmwSucceeded /\ AllComplete
  /\ last.op = "set_frequency"
  /\ 31 \in WordAt(RmwPayloadRead, 0)
  /\ WordAt(RmwPayloadRead, 5) # {}
  /\ RmwPayloadWritten # RmwPayloadRead

\* C6: every command frame a write operation hands to the transport is the
\* address byte, the payload of the opcode, and a last byte equal to the sum
\* of the address and payload bytes modulo 256; the number of bytes written
\* is 1 + payload size + 1.
C6_CommandFrameChecksummed ==
  last.op \in LegacyWriteOps \cup TemplateWriteOps =>
    \A i \in CommandIdx :
      LET f == last.trace[i].bytes
          n == PayloadSize(Opcode(f[1]))
      IN /\ last.trace[i].len = 1 + n + 1
         /\ Len(f) = 1 + n + 1
         /\ f[Len(f)] = SumSeq(SubSeq(f, 1, Len(f) - 1)) % 256

\* C7: every frame carries the payload size of its opcode: a query reads
\* 24, 4, 16, 4 or 1 payload bytes for 0x80, 0x81, 0x82, 0x83, 0x86, a
\* command carries that many between its address and its checksum (none for
\* 0x40), and every write-all-registers frame holds all six register words.
C7_PayloadSizes ==
  /\ \A i \in QueryIdx :
       Len(last.trace[i].bytes) = 1 =>
         last.trace[i + 1].len = PayloadSize(Opcode(last.trace[i].bytes[1]))
  /\ \A i \in CommandIdx :
       Len(last.trace[i].bytes) - 2
         = PayloadSize(Opcode(last.trace[i].bytes[1]))

-----------------------------------------------------------------------------
\* operations that address one synthesizer; their first argument selects it
ChannelOps ==
  {"get_frequency", "set_frequency", "get_rf_level", "set_rf_level",
   "get_options", "set_options", "get_vco_range", "set_vco_range",
   "get_phase_lock", "get_label", "set_label",
   "getFrequency", "setFrequency", "getRfLevel", "setRfLevel",
   "getOptions", "setOptions", "getVcoRange", "setVcoRange",
   "isPhaseLocked", "getLabel", "setLabel"}

\* the opcodes the protocol gives each operation: queries have bit 7 set,
\* commands have it clear
QueryOpcodes(op) ==
  CASE op \in {"get_frequency", "getFrequency"} -> {\H80, \H81}
    [] op \in {"set_frequency", "setFrequency"} -> {\H83, \H80, \H81}
    [] op \in {"get_rf_level", "getRfLevel", "set_rf_level", "setRfLevel",
               "get_options", "getOptions", "set_options", "setOptions"}
         -> {\H80}
    [] op \in {"get_reference", "getReferenceFrequency"} -> {\H81}
    [] op \in {"get_label", "getLabel"} -> {\H82}
    [] op \in {"get_vco_range", "getVcoRange"} -> {\H83}
    [] op \in {"get_ref_select", "isReferenceExternal", "get_phase_lock",
               "isPhaseLocked"} -> {\H86}
    [] OTHER -> {}

CommandOpcodes(op) ==
  CASE op \in RmwOps -> {\H00}
    [] op \in {"set_reference", "setReferenceFrequency"} -> {\H01}
    [] op \in {"set_label", "setLabel"} -> {\H02}
    [] op \in {"set_vco_range", "setVcoRange"} -> {\H03}
    [] op \in {"set_ref_select", "setReferenceExternal"} -> {\H06}
    [] op \in {"flash", "flashSettings"} -> {\H40}
    [] OTHER -> {}

\* the address bytes an operation may put on the wire: an operation on one
\* synthesizer ORs the selector into every opcode but the read of the
\* reference, which the device has once
Addresses(op, args) ==
  {IF op \in ChannelOps /\ o # \H81 THEN Or8(o, args[1]) ELSE o :
     o \in QueryOpcodes(op) \cup CommandOpcodes(op)}

\* C8: the address byte of every frame is the operation's opcode OR-ed with
\* the selector of the requested channel only (0x00 for A, 0x08 for B):
\* queries have bit 7 set and commands have it clear, a write of the
\* reference frequency uses 0x01, and the device-wide operations (reference
\* frequency, reference select, flash) never carry 0x08.
C8_AddressByte ==
  \A i \in FrameIdx :
    LET a == last.trace[i].bytes[1]
    IN /\ a \in Addresses(last.op, last.args)
       /\ (a >= \H80) <=> (Opcode(a) \in QueryOpcodes(last.op))
       /\ last.op \notin ChannelOps => Channel(a) = 0

\* C9: setting the RF level to a value outside {-4, -1, 2, 5} fails as an
\* invalid argument and performs no transport I/O, so the device's
\* output_power is left as it was.
C9_InvalidLevelNoIO ==
  (last.op \in {"set_rf_level", "setRfLevel"}
     /\ last.args[2] \notin {-4, -1, 2, 5})
    => (last.trace = << >> /\ Reported(FALSE))

-----------------------------------------------------------------------------
\* the level table of the protocol: dBm -> output_power code
LevelCode == (-4 :> 0) @@ (-1 :> 1) @@ (2 :> 2) @@ (5 :> 3)

\* a line on which nothing goes wrong
Quiet(n) == [fault |-> [k \in 1..n |-> "none"], junk |-> \H50]

\* the level each driver reads back from the device as it is now
LevelReadBack(synth) == get_rf_level(NewCtx(dev, Quiet(1)), synth)

\* C10: the RF level mapping is a bijection between the codes 0, 1, 2, 3 and
\* the levels -4, -1, 2, 5 dBm: for each such level L a set of the level
\* writes code(L) into Register4 bits 3..4, a get of the level on a register
\* holding code(L) returns L, so decode(encode(L)) = L, and the decoding is
\* defined for all four codes.
C10_RfLevelBijection ==
  /\ \A a, b \in DOMAIN LevelCode : LevelCode[a] = LevelCode[b] => a = b
  /\ {LevelCode[a] : a \in DOMAIN LevelCode} = 0..3
  /\ \A c \in 0..3 :
       /\ rf_level_of(c) \in DOMAIN LevelCode
       /\ LevelCode[rf_level_of(c)] = c
       /\ output_power_level(c) \in DOMAIN LevelCode
       /\ LevelCode[output_power_level(c)] = c
  /\ (last.op = "set_rf_level" /\ CommandIdx # {}) =>
       /\ last.args[2] \in DOMAIN LevelCode
       /\ Field(WordAt(RmwPayloadWritten, 4), 3, 2) = LevelCode[last.args[2]]
  /\ (last.op = "set_rf_level" /\ RmwSucceeded) =>
       /\ Field(dev.regs[last.args[1]][5], 3, 2) = LevelCode[last.args[2]]
       /\ LevelReadBack(last.args[1]).ret
       /\ LevelReadBack(last.args[1]).out = last.args[2]
  /\ (last.op = "get_rf_level" /\ ~QueryTransportFailed(1)) =>
       /\ last.out \in DOMAIN LevelCode
       /\ LevelCode[last.out]
            = Field(WordAt(last.trace[2].bytes, 4), 3, 2)
  /\ (last.op = "setRfLevel" /\ last.args[2] \in DOMAIN LevelCode
        /\ CommandIdx # {}) =>
       Field(host_word32(TheCommand, 17), 3, 2) = LevelCode[last.args[2]]
  /\ (last.op = "getRfLevel" /\ ~QueryTransportFailed(1)) =>
       /\ last.out \in DOMAIN LevelCode
       /\ LevelCode[last.out]
            = Field(host_word32(last.trace[2].bytes, 16), 3, 2)

\* a set of 2 dBm that succeeded on a register holding another code, after
\* which the device holds code 2 and the level reads back as 2
C10_Witness ==
  /\ last.op = "set_rf_level" /\ RmwSucceeded /\ AllComplete
  /\ last.args[2] = 2
  /\ Field(WordAt(RmwPayloadRead, 4), 3, 2) # 2
  /\ Field(dev.regs[last.args[1]][5], 3, 2) = 2
  /\ LevelReadBack(last.args[1]).out = 2

-----------------------------------------------------------------------------
\* Observations of a set_frequency or setFrequency call

FreqSetOps == {"set_frequency", "setFrequency"}

\* every query of the call got its whole reply with a matching checksum
QueriesSound == \A i \in QueryIdx : ~QueryFailed(i)

\* the frac and mod fields of the Register0 and Register1 words of the
\* command frame
WrittenFrac == Field(WordAt(SubSeq(TheCommand, 2, 9), 0), 3, 12)
WrittenMod == Field(WordAt(SubSeq(TheCommand, 2, 9), 1), 3, 12)

\* the same fields of the frame of the template driver, read in the byte
\* order the driver stored them in
TplWrittenFrac == BitField_get(host_word32(SubSeq(TheCommand, 2, 9), 0), 3, 12)
TplWrittenMod == BitField_get(host_word32(SubSeq(TheCommand, 2, 9), 4), 3, 12)

Divides(d, n) == n % d = 0

\* g is the greatest common divisor of the positive a and b
IsGcd(g, a, b) ==
  /\ g \in 1..a /\ Divides(g, a) /\ Divides(g, b)
  /\ \A d \in 1..a : (Divides(d, a) /\ Divides(d, b)) => d <= g

\* [frac, mod] in lowest terms, or 0/1 when frac or mod is zero
LowestTerms(frac, mod) ==
  IF frac # 0 /\ mod # 0
  THEN LET g == CHOOSE d \in 1..frac : IsGcd(d, frac, mod)
       IN [frac |-> frac \div g, mod |-> mod \div g]
  ELSE [frac |-> 0, mod |-> 1]

\* the effective phase detector frequencies the frequency arithmetic is
\* examined at, in MHz
EPDFs == {Rat(10, 1), Rat(20, 1), Rat(5, 1)}

\* frac and mod as the legacy driver computes them, before reduction, from
\* the device as it is now
LegacyRawOfCall ==
  LET synth == last.args[1]
      dbf == legacy_dbf(last.args[2], dev.vco[synth].min)
  IN raw_freq_vars(last.args[2] * dbf, last.args[3],
                   getEPDF(NewCtx(dev, Quiet(2)), synth).epdf, {})

\* C11: in set_frequency, whenever the computed frac and mod are both
\* nonzero the pair written to the registers is the fraction in lowest
\* terms, frac and mod each divided by their greatest common divisor, so
\* the written pair is coprime; whenever frac or mod is zero the pair
\* written is frac = 0, mod = 1.  Stated of the frame each driver writes and
\* of the values each driver's arithmetic hands to the register packing.
C11_LowestTerms ==
  /\ (last.op = "set_frequency" /\ CommandIdx # {} /\ QueriesSound) =>
       LET low == LowestTerms(LegacyRawOfCall.frac, LegacyRawOfCall.mod)
       IN /\ WrittenFrac = low.frac /\ WrittenMod = low.mod
          /\ IsGcd(1, WrittenMod, WrittenFrac)
  /\ (last.op = "setFrequency" /\ CommandIdx # {} /\ QueriesSound) =>
       /\ TplWrittenMod # 0
       /\ IsGcd(1, TplWrittenMod, TplWrittenFrac)
  /\ \A f \in Frequencies, sp \in ChanSpacings, epdf \in EPDFs,
        vcor \in VcoRanges :
       LET dbf == tpl_dbf_loop(f, vcor.min, 1)
           raw == raw_freq_vars(f * dbf, sp, epdf, {})
           low == LowestTerms(raw.frac, raw.mod)
           v == tpl_freq_vars(f, sp, vcor.min, epdf, {})
       IN BitsToNat(v.frac) = low.frac /\ BitsToNat(v.mod) = low.mod

-----------------------------------------------------------------------------
\* target frequencies and VCO minima, in MHz, the choice of dbf is examined
\* at: below, at and above each threshold vco_min / dbf
DbfTargets ==
  Frequencies \cup {0, 1, 100, 137, 143, 144, 150, 275, 287, 288, 575, 1150,
                    1200, 2300, 2301, 5000}
DbfMins == {v.min : v \in VcoRanges} \cup {0, 4000}

\* the smallest of 1, 2, 4, 8, 16 that lifts target above vco_min, and 16
\* when none does
SmallestDbf(target, vco_min) ==
  LET ok == {d \in {1, 2, 4, 8, 16} : target * d > vco_min}
  IN IF ok = {} THEN 16 ELSE CHOOSE d \in ok : \A e \in ok : d <= e

\* the divider_select field of the Register4 word of the command frame, as
\* each driver stored it
WrittenDbfCode ==
  IF last.op = "set_frequency"
  THEN Field(WordAt(RmwPayloadWritten, 4), 20, 3)
  ELSE BitField_get(host_word32(SubSeq(TheCommand, 2, 21), 16), 20, 3)

\* the vco_min each driver gets from its query of the VCO range of the
\* device as it is now
VcoMinOfCall ==
  IF last.op = "set_frequency"
  THEN get_vco_range(NewCtx(dev, Quiet(1)), last.args[1]).out.min
  ELSE getVcoRange(NewCtx(dev, Quiet(1)), last.args[1]).out.min

\* C12: set_frequency chooses dbf as the smallest value in {1, 2, 4, 8, 16}
\* with target * dbf > vco_min, and 16 when there is none; the dbf is never
\* 32; the legacy loop with its clamp and the template loop give the same
\* dbf for every target and vco_min; for the VCO range {2300, 4800} and the
\* target 1200 the result is dbf = 2 and vco = 2400 (ncount 240 at EPDF 10).
C12_DbfChoice ==
  /\ \A f \in DbfTargets, m \in DbfMins :
       /\ legacy_dbf(f, m) = SmallestDbf(f, m)
       /\ tpl_dbf_loop(f, m, 1) = SmallestDbf(f, m)
       /\ legacy_dbf(f, m) \in {1, 2, 4, 8, 16}
  /\ legacy_dbf(1200, 2300) = 2
  /\ \A sp \in ChanSpacings :
       /\ legacy_freq_vars(1200, sp, 2300, Rat(10, 1), {}).ncount
            = NatToBits(240, 32)
       /\ tpl_freq_vars(1200, sp, 2300, Rat(10, 1), {}).ncount
            = NatToBits(240, 32)
  /\ (last.op \in FreqSetOps /\ CommandIdx # {} /\ QueriesSound) =>
       WrittenDbfCode = dbf_code(SmallestDbf(last.args[2], VcoMinOfCall))

\* a set_frequency of 1203 MHz that succeeded with divider_select written
\* as the code of dbf = 2, where the loop of the legacy driver for 100 MHz
\* runs past 16
C12_Witness ==
  /\ last.op = "set_frequency" /\ RmwSucceeded /\ AllComplete
  /\ last.args[2] = 1203
  /\ WrittenDbfCode = 1
  /\ legacy_dbf_loop(100, dev.vco[last.args[1]].min, 1) = 32

-----------------------------------------------------------------------------
\* some dbf of 1, 2, 4, 8, 16 puts the target between the VCO limits
InVcoRange(target, vcor) ==
  \E dbf \in {1, 2, 4, 8, 16} :
    vcor.min <= target * dbf /\ target * dbf <= vcor.max

\* |(ncount + frac / mod) * EPDF / dbf - target| <= step, for the operands
\* get_frequency hands back, cleared of denominators
FrequencyWithin(v, target, step) ==
  LET got == (v.ncount * v.mod + v.frac) * v.epdf.n
      want == target * v.mod * v.epdf.d * v.dbf
      slack == step * v.mod * v.epdf.d * v.dbf
  IN got - want <= slack /\ want - got <= slack

\* what get_frequency returns from the device as it is now
FrequencyReadBack(synth) == get_frequency(NewCtx(dev, Quiet(3)), synth)

\* C13: for a target frequency f inside the channel's VCO range, any
\* reference and options and any channel spacing, after set_frequency(channel,
\* f, spacing) succeeds against a device that stores the written registers,
\* get_frequency(channel) returns a value within one channel spacing of f.
C13_FrequencyRoundTrip ==
  (/\ last.op = "set_frequency" /\ RmwSucceeded /\ AllComplete
   /\ QueriesSound
   /\ InVcoRange(last.args[2], dev.vco[last.args[1]]))
    => LET g == FrequencyReadBack(last.args[1])
       IN /\ g.ret
          /\ Field(dev.regs[last.args[1]][2], 3, 12) # 0
          /\ FrequencyWithin(g.out, last.args[2], last.args[3])

-----------------------------------------------------------------------------
FreqGetOps == {"get_frequency", "getFrequency"}

\* the options held in a Register2 word: double_r is bit 25, half_r bit 24
\* and r bits 14..23
StoredOptions(reg2) ==
  [double_ref |-> 25 \in reg2, half_ref |-> 24 \in reg2,
   r |-> BitsToNat({i - 14 : i \in reg2 \cap (14..23)})]

\* reference_hz / 1e6, doubled, halved and divided by r > 1, as one fraction
\* in lowest terms
ExpectedEPDF(reference_hz, opts) ==
  LET mhz == Rat(reference_hz, 1000000)
  IN Rat(mhz.n * (IF opts.double_ref THEN 2 ELSE 1),
         mhz.d * (IF opts.half_ref THEN 2 ELSE 1)
               * (IF opts.r > 1 THEN opts.r ELSE 1))

\* option values the EPDF arithmetic is examined at
EPDFOptions ==
  [double_ref : BOOLEAN, half_ref : BOOLEAN, r : {0, 1, 2, 3, 1023},
   low_spur : {FALSE}]

\* the mod the frequency query of each driver unpacks from the device as it
\* is now; the query hands its operands back when this is not zero
ModOfCall ==
  IF last.op = "get_frequency"
  THEN Field(dev.regs[last.args[1]][2], 3, 12)
  ELSE readFrequencyRegisters(NewCtx(dev, Quiet(1)), last.args[1]).regs.mod

\* C14: getEPDF(channel) is reference_hz / 1e6, doubled if the channel's
\* double_ref option is set, halved if half_ref is set (both when both are
\* set), and then divided by r only when r > 1 (r = 0 and r = 1 leave it
\* unchanged, so there is no division by zero); reference_hz is the
\* device-wide value and the options are those of the same channel's
\* Register2.  Observed in the EPDF a frequency query of either driver
\* computed from sound replies.
C14_EPDF ==
  /\ \A ref \in References, opts \in EPDFOptions :
       epdf_of(ref, opts) = ExpectedEPDF(BitsToNat(ref), opts)
  /\ (/\ last.op \in FreqGetOps /\ AllComplete /\ QueriesSound
      /\ ModOfCall # 0)
       => last.out.epdf
            = ExpectedEPDF(BitsToNat(dev.ref),
                           StoredOptions(dev.regs[last.args[1]][3]))

-----------------------------------------------------------------------------
(* The BitField members of the register unions, exercised one operation at *)
(* a time on the register words of a device image: last.out is the word    *)
(* before the operation and last.ret the value the expression yields.      *)

\* Index and Width of the fields each register union declares
RegFields ==
  << { <<0, 3>>, <<3, 12>>, <<15, 16>> },
     { <<0, 3>>, <<3, 12>>, <<15, 12>>, <<27, 1>> },
     { <<0, 3>>, <<3, 1>>, <<4, 1>>, <<5, 1>>, <<6, 1>>, <<7, 1>>, <<8, 1>>,
       <<9, 4>>, <<13, 1>>, <<14, 10>>, <<24, 1>>, <<25, 1>>, <<26, 3>>,
       <<29, 2>> },
     { <<0, 3>>, <<3, 12>>, <<15, 2>>, <<18, 1>> },
     { <<0, 3>>, <<3, 2>>, <<5, 1>>, <<6, 2>>, <<8, 1>>, <<9, 1>>, <<10, 1>>,
       <<11, 1>>, <<12, 8>>, <<20, 3>>, <<23, 1>> },
     { <<0, 3>>, <<22, 2>> } >>

\* operands of type T: within every width, wider than some, and all ones
FieldValues ==
  {NatToBits(n, 32) : n \in {0, 1, 2, 5, 476, 1500, 4096, 65537}}
    \cup {0..31}

\* the member fld of register k of channel s undergoes op with operand v
FieldOp(op, s, k, fld, v, word, ret) ==
  /\ dev' = [dev EXCEPT !.regs[s][k] = word]
  /\ last' = [op |-> op, args |-> << s, k, fld, v >>, ret |-> ret,
              out |-> dev.regs[s][k], trace |-> << >>]
  /\ pc' = "returned"

field_assign ==
  /\ pc = "idle"
  /\ \E s \in Synthesizer, k \in 1..6, v \in FieldValues :
       \E fld \in RegFields[k] :
         \E w \in {BitField_assign(dev.regs[s][k], fld[1], fld[2], v)} :
           FieldOp("operator=", s, k, fld, v, w,
                   BitField_get(w, fld[1], fld[2]))

field_add ==
  /\ pc = "idle"
  /\ \E s \in Synthesizer, k \in 1..6, v \in FieldValues :
       \E fld \in RegFields[k] :
         \E w \in {BitField_add(dev.regs[s][k], fld[1], fld[2], v)} :
           FieldOp("operator+=", s, k, fld, v, w,
                   BitField_get(w, fld[1], fld[2]))

field_sub ==
  /\ pc = "idle"
  /\ \E s \in Synthesizer, k \in 1..6, v \in FieldValues :
       \E fld \in RegFields[k] :
         \E w \in {BitField_sub(dev.regs[s][k], fld[1], fld[2], v)} :
           FieldOp("operator-=", s, k, fld, v, w,
                   BitField_get(w, fld[1], fld[2]))

field_inc ==
  /\ pc = "idle"
  /\ \E s \in Synthesizer, k \in 1..6 :
       \E fld \in RegFields[k] :
         \E w \in {BitField_inc(dev.regs[s][k], fld[1], fld[2])} :
           FieldOp("++operator", s, k, fld, {0}, w,
                   BitField_get(w, fld[1], fld[2]))

field_dec ==
  /\ pc = "idle"
  /\ \E s \in Synthesizer, k \in 1..6 :
       \E fld \in RegFields[k] :
         \E w \in {BitField_dec(dev.regs[s][k], fld[1], fld[2])} :
           FieldOp("--operator", s, k, fld, {0}, w,
                   BitField_get(w, fld[1], fld[2]))

field_post_inc ==
  /\ pc = "idle"
  /\ \E s \in Synthesizer, k \in 1..6 :
       \E fld \in RegFields[k] :
         \E p \in {BitField_post_inc(dev.regs[s][k], fld[1], fld[2])} :
           FieldOp("operator++", s, k, fld, {0}, p.value, p.r)

field_post_dec ==
  /\ pc = "idle"
  /\ \E s \in Synthesizer, k \in 1..6 :
       \E fld \in RegFields[k] :
         \E p \in {BitField_post_dec(dev.regs[s][k], fld[1], fld[2])} :
           FieldOp("operator--", s, k, fld, {0}, p.value, p.r)

BitFieldNext ==
  \/ field_assign
  \/ field_add
  \/ field_sub
  \/ field_inc
  \/ field_dec
  \/ field_post_inc
  \/ field_post_dec

BitFieldSpec == Init /\ [][BitFieldNext]_vars

\* the member the last operation acted on, and the word it left
FieldOfOp == last.args[3]
OperandOfOp == last.args[4]
WordBefore == last.out
WordAfter == dev.regs[last.args[1]][last.args[2]]

\* the bits of the field at Index of Width bits
FieldBits(fld) == fld[1]..(fld[1] + fld[2] - 1)

\* v & ((1 << Width) - 1) as a number, for Width below 31
LowBits(v, Width) == BitsToNat(v \ {31}) % 2^Width

\* C15: for every BitField<T, Index, Width> and every value v of T, wider
\* than Width bits or not, reading the field after assigning v to it returns
\* exactly v & ((1 << Width) - 1): the field's own bits, shifted to position
\* 0 and zero-extended.
C15_AssignThenRead ==
  last.op = "operator=" =>
    /\ BitField_get(WordAfter, FieldOfOp[1], FieldOfOp[2])
         = LowBits(OperandOfOp, FieldOfOp[2])
    /\ last.ret = LowBits(OperandOfOp, FieldOfOp[2])

\* the divider 1500, wider than the 10 bits of reg2_t::r, was assigned to r
\* and r reads 476
C15_Witness ==
  /\ last.op = "operator=" /\ last.args[2] = 3 /\ FieldOfOp = <<14, 10>>
  /\ OperandOfOp = NatToBits(1500, 32)
  /\ BitField_get(WordAfter, 14, 10) = 476
  /\ WordBefore # WordAfter


\* C16: assigning any value to a BitField (operator=) leaves every bit of
\* the underlying 32-bit word outside [Index, Index + Width) unchanged, so
\* assigning to one named field of a register union never changes the value
\* read from any other named field of the same register, or its reserved
\* bits.
C16_AssignKeepsOtherBits ==
  last.op = "operator=" =>
    /\ WordAfter \ FieldBits(FieldOfOp) = WordBefore \ FieldBits(FieldOfOp)
    /\ \A other \in RegFields[last.args[2]] \ {FieldOfOp} :
         BitField_get(WordAfter, other[1], other[2])
           = BitField_get(WordBefore, other[1], other[2])

\* an assignment to reg2_t::r that changed r in a word whose low_spur and
\* control bits were set
C16_Witness ==
  /\ last.op = "operator=" /\ last.args[2] = 3 /\ FieldOfOp = <<14, 10>>
  /\ {0, 2, 29, 30} \subseteq WordBefore
  /\ WordAfter # WordBefore
  /\ {0, 2, 29, 30} \subseteq WordAfter


FieldArithmeticOps ==
  {"operator+=", "operator-=", "++operator", "--operator", "operator++",
   "operator--"}

\* C17: the arithmetic field writes of BitField (operator+=, operator-=,
\* prefix and postfix ++ and --) leave every bit of the underlying word
\* outside [Index, Index + Width) unchanged, exactly like assignment.
C17_ArithmeticKeepsOtherBits ==
  last.op \in FieldArithmeticOps =>
    WordAfter \ FieldBits(FieldOfOp) = WordBefore \ FieldBits(FieldOfOp)

-----------------------------------------------------------------------------
(* The checksum routines of both drivers, applied to byte sequences: last  *)
(* holds the arguments of the call and what it returned.                   *)

ChecksumMaxLen == 3

\* byte values the sequences are made of
ChecksumBytes == {\H00, \H01, \H7f, \H80, \Hff}

\* every sequence of up to ChecksumMaxLen such bytes, and two labels whose
\* bytes sum to more than 255
ChecksumInputs ==
  UNION {[1..n -> ChecksumBytes] : n \in 0..ChecksumMaxLen}
    \cup {LabelA, LabelC}

\* a checksum byte at distance d from the right one
ChecksumShifts == {0, 1, \H80, \Hff}

ChecksumCall(op, args, ret) ==
  /\ dev' = dev
  /\ last' = [op |-> op, args |-> args, ret |-> ret, out |-> "none",
              trace |-> << >>]
  /\ pc' = "returned"

call_generate_checksum ==
  /\ pc = "idle"
  /\ \E bytes \in ChecksumInputs :
       \E length \in 0..Len(bytes) :
         ChecksumCall("generate_checksum", << bytes, length >>,
                      generate_checksum(bytes, length))

call_verify_checksum ==
  /\ pc = "idle"
  /\ \E bytes \in ChecksumInputs, d \in ChecksumShifts :
       \E length \in 0..Len(bytes) :
         \E c \in {(SumSeq(SubSeq(bytes, 1, length)) + d) % 256} :
           ChecksumCall("verify_checksum", << bytes, length, c >>,
                        verify_checksum(bytes, length, c))

\* the template routines take a vector of buffers: here two of them
call_generateChecksum ==
  /\ pc = "idle"
  /\ \E b1 \in ChecksumInputs, b2 \in {<< >>, << \H06 >>, LabelB} :
       ChecksumCall("generateChecksum", << b1 \o b2, Len(b1) + Len(b2) >>,
                    generateChecksum(b1 \o b2))

call_verifyChecksum ==
  /\ pc = "idle"
  /\ \E b1 \in ChecksumInputs, b2 \in {<< >>, << \H06 >>, LabelB},
        d \in ChecksumShifts :
       \E c \in {(SumSeq(b1 \o b2) + d) % 256} :
         ChecksumCall("verifyChecksum", << b1 \o b2, Len(b1) + Len(b2), c >>,
                      verifyChecksum(b1 \o b2, c))

ChecksumNext ==
  \/ call_generate_checksum
  \/ call_verify_checksum
  \/ call_generateChecksum
  \/ call_verifyChecksum

ChecksumSpec == Init /\ [][ChecksumNext]_vars

\* the sum of the first n bytes modulo 256, reduced byte by byte
RECURSIVE SumMod256(_, _)
SumMod256(bytes, n) ==
  IF n = 0 THEN 0 ELSE (SumMod256(bytes, n - 1) + bytes[n]) % 256

GenerateOps == {"generate_checksum", "generateChecksum"}
VerifyOps == {"verify_checksum", "verifyChecksum"}

\* C18: for any byte sequence the generated checksum is the sum of all its
\* bytes modulo 256, and verify_checksum(bytes, n, c) is true exactly when c
\* equals that sum, so verifying a sequence against its own checksum is
\* always true; the legacy generate_checksum / verify_checksum and the
\* template generateChecksum / verifyChecksum over the concatenation of the
\* buffers compute the same value.
C18_ChecksumIsByteSum ==
  /\ last.op \in GenerateOps =>
       /\ last.ret = SumMod256(last.args[1], last.args[2])
       /\ last.ret \in 0..255
       /\ verify_checksum(last.args[1], last.args[2], last.ret)
       /\ verifyChecksum(SubSeq(last.args[1], 1, last.args[2]), last.ret)
       /\ generate_checksum(last.args[1], last.args[2])
            = generateChecksum(SubSeq(last.args[1], 1, last.args[2]))
  /\ last.op \in VerifyOps =>
       /\ last.ret = (last.args[3] = SumMod256(last.args[1], last.args[2]))
       /\ verify_checksum(last.args[1], last.args[2], last.args[3])
            = verifyChecksum(SubSeq(last.args[1], 1, last.args[2]),
                             last.args[3])

\* a checksum generated over all the bytes of a sequence that sum to more
\* than 255: it is not the sum itself, and it verifies
C18_Witness ==
  /\ last.op = "generate_checksum"
  /\ last.args[2] = Len(last.args[1])
  /\ SumSeq(last.args[1]) > 255
  /\ last.ret = SumSeq(last.args[1]) % 256
  /\ verify_checksum(last.args[1], last.args[2], last.ret)

\* checksum is the right checksum of a sequence that differs from the first
\* n of bytes in exactly one byte: bytes is that sequence with one byte
\* replaced by a different value
OneByteReplaced(bytes, n, checksum) ==
  \E i \in 1..n, b \in 0..255 :
    /\ b # bytes[i]
    /\ SumMod256([bytes EXCEPT ![i] = b], n) = checksum

\* C19: for any byte sequence with its correct checksum, replacing any
\* single byte of the sequence by a different byte value makes checksum
\* verification fail.
C19_SingleByteChangeDetected ==
  (/\ last.op \in VerifyOps
   /\ OneByteReplaced(last.args[1], last.args[2], last.args[3]))
    => last.ret = FALSE

\* verify_checksum refused a sequence of several bytes one of which had its
\* top bit flipped since the checksum was made
C19_Witness ==
  /\ last.op = "verify_checksum"
  /\ last.args[2] = 3
  /\ last.args[3] = (SumSeq(SubSeq(last.args[1], 1, 3)) + \H80) % 256
  /\ OneByteReplaced(last.args[1], last.args[2], last.args[3])
  /\ last.ret = FALSE

-----------------------------------------------------------------------------
\* the options a read back should give after opts were set: the divider
\* keeps its low 10 bits
OptionsKept(opts) ==
  [low_spur |-> opts.low_spur, double_ref |-> opts.double_ref,
   half_ref |-> opts.half_ref, r |-> opts.r % 2^10]

\* the 2-bit pattern low_spur stands for
LowSpurPattern(low_spur) == IF low_spur THEN 3 ELSE 0

\* the device as it is now, with pattern in the low_spur field of the
\* channel's Register2
WithLowSpurField(synth, pattern) ==
  [dev EXCEPT !.regs[synth][3] =
     (@ \ {29, 30}) \cup Shl(NatToBits(pattern, 2), 29)]

\* what get_options reads from the device d
OptionsReadBack(d, synth) == get_options(NewCtx(d, Quiet(1)), synth)

\* the low_spur field of the Register2 word of the command frame of the
\* template driver, in the byte order the driver stored it
TplWrittenLowSpur ==
  BitField_get(host_word32(SubSeq(TheCommand, 2, 13), 8), 29, 2)

\* C20: set_options writes the 2-bit low_spur field (Register2 bits 29..30)
\* as 0b11 when low_spur is true and 0b00 when it is false, never 0b01 or
\* 0b10, whatever the field held before; reading the options back from a
\* device that stored the write returns the same low_spur, double_ref,
\* half_ref and divider (the divider truncated to 10 bits).
C20_LowSpurBothBits ==
  /\ (last.op = "set_options" /\ CommandIdx # {} /\ QueriesSound) =>
       Field(WordAt(RmwPayloadWritten, 2), 29, 2)
         = LowSpurPattern(last.args[2].low_spur)
  /\ (last.op = "set_options" /\ RmwSucceeded /\ AllComplete) =>
       /\ Field(dev.regs[last.args[1]][3], 29, 2)
            = LowSpurPattern(last.args[2].low_spur)
       /\ OptionsReadBack(dev, last.args[1]).ret
       /\ OptionsReadBack(dev, last.args[1]).out = OptionsKept(last.args[2])
       /\ \A pattern \in 0..3 :
            LET before == WithLowSpurField(last.args[1], pattern)
                after == set_options(NewCtx(before, Quiet(2)), last.args[1],
                                     last.args[2]).ctx.dev
            IN /\ Field(after.regs[last.args[1]][3], 29, 2)
                    = LowSpurPattern(last.args[2].low_spur)
               /\ OptionsReadBack(after, last.args[1]).out
                    = OptionsKept(last.args[2])
  /\ (last.op = "setOptions" /\ CommandIdx # {} /\ QueriesSound) =>
       TplWrittenLowSpur = LowSpurPattern(last.args[2].low_spur)

\* a set_options with low_spur true that the device stored over a field
\* holding 0b00: the field now holds 0b11 and reads back as true
C20_Witness ==
  /\ last.op = "set_options" /\ RmwSucceeded /\ AllComplete
  /\ last.args[2].low_spur
  /\ Field(WordAt(RmwPayloadRead, 2), 29, 2) = 0
  /\ Field(dev.regs[last.args[1]][3], 29, 2) = 3
  /\ OptionsReadBack(dev, last.args[1]).out.low_spur

-----------------------------------------------------------------------------
LabelSetOps == {"set_label", "setLabel"}
LabelGetOps == {"get_label", "getLabel"}

\* the payload of the command frame: what lies between the address byte and
\* the checksum byte
CommandPayload == SubSeq(TheCommand, 2, Len(TheCommand) - 1)

\* the payload the label query of the call received
LabelReceived == last.trace[(CHOOSE i \in QueryIdx : TRUE) + 1].bytes

\* C21: set_label always sends a payload of exactly 16 label bytes: a label
\* longer than 16 characters is cut to its first 16, a shorter one is padded
\* to 16 with defined bytes, so that no byte from beyond the end of the
\* caller's string is transmitted; get_label returns exactly the 16 bytes
\* received and reads nothing past them.
C21_LabelSixteenBytes ==
  /\ (last.op \in LabelSetOps /\ CommandIdx # {}) =>
       LET label == last.args[2]
           n == IF Len(label) < 16 THEN Len(label) ELSE 16
       IN /\ Len(CommandPayload) = 16
          /\ SubSeq(CommandPayload, 1, n) = SubSeq(label, 1, n)
          /\ \A i \in (n + 2)..16 : CommandPayload[i] \notin JunkBytes
  /\ (last.op = "get_label" /\ AllComplete /\ Reported(TRUE)) =>
       last.out = LabelReceived
  /\ (last.op = "getLabel" /\ AllComplete) =>
       last.out = LabelReceived

-----------------------------------------------------------------------------
\* the address byte the only query of the call sent, and the status byte it
\* received
StatusAddress == last.trace[1].bytes[1]
StatusByte == last.trace[2].bytes[1]

\* bit k of the byte b is 1
ByteBit(b, k) == (b \div 2^k) % 2 = 1

\* C22: get_phase_lock(channel) reports locked exactly when the status byte
\* read with address 0x86 | channel has bit 0x20 set for channel A or bit
\* 0x10 set for channel B, no other bit of the byte having any influence;
\* get_ref_select reports external exactly when bit 0 of the status byte
\* read with address 0x86 is 1.
C22_StatusBits ==
  /\ (last.op = "get_phase_lock" /\ AllComplete /\ Reported(TRUE)) =>
       /\ StatusAddress = \H86 + last.args[1]
       /\ last.out = ByteBit(StatusByte,
                             IF last.args[1] = SynthA THEN 5 ELSE 4)
  /\ (last.op = "get_ref_select" /\ AllComplete /\ Reported(TRUE)) =>
       /\ StatusAddress = \H86
       /\ last.out = ByteBit(StatusByte, 0)

\* channel B was reported unlocked from a status byte whose bit 0x20, the
\* bit of channel A, is set
C22_Witness ==
  /\ last.op = "get_phase_lock" /\ AllComplete /\ Reported(TRUE)
  /\ last.args[1] = SynthB
  /\ ByteBit(StatusByte, 5) /\ ~ByteBit(StatusByte, 4)
  /\ last.out = FALSE

-----------------------------------------------------------------------------
\* the k bytes of the natural number n, most significant byte first
BigEndian(n, k) == [i \in 1..k |-> (n \div 256^(k - i)) % 256]

\* the words and the shorts the device holds
DeviceWords ==
  {dev.ref} \cup {dev.regs[s][k] : s \in Synthesizer, k \in 1..6}
DeviceShorts ==
  UNION {{dev.vco[s].min, dev.vco[s].max} : s \in Synthesizer}

ReferenceSetOps == {"set_reference", "setReferenceFrequency"}
VcoRangeSetOps == {"set_vco_range", "setVcoRange"}

\* C23: multi-byte integers travel most significant byte first: pack_int
\* and pack_short emit big-endian bytes, unpack_int(pack_int(x)) = x for
\* every 32-bit x (bit 31 set or not) and unpack_short(pack_short(y)) = y
\* for every 16-bit y, and the template driver transmits its reference and
\* VCO-range words in the same big-endian order.
C23_BigEndian ==
  /\ \A w \in DeviceWords :
       /\ unpack_int(pack_int(w), 0) = w
       /\ (31 \notin w) => pack_int(w) = BigEndian(BitsToNat(w), 4)
  /\ \A y \in DeviceShorts :
       /\ unpack_short(pack_short(y), 0) = y
       /\ pack_short(y) = BigEndian(y, 2)
  /\ (last.op \in ReferenceSetOps /\ CommandIdx # {}) =>
       SubSeq(TheCommand, 2, 5) = BigEndian(BitsToNat(last.args[1]), 4)
  /\ (last.op \in VcoRangeSetOps /\ CommandIdx # {}) =>
       SubSeq(TheCommand, 2, 5) = BigEndian(last.args[2].min, 2)
                                    \o BigEndian(last.args[2].max, 2)

-----------------------------------------------------------------------------
DbfValues == {1, 2, 4, 8, 16}

\* the dbf the template driver decodes from the registers of the device
TplDbfRead(id) == readFrequencyRegisters(NewCtx(dev, Quiet(1)), id).regs.dbf

-----------------------------------------------------------------------------
IsRead(i, n) ==
  /\ i <= Len(last.trace)
  /\ last.trace[i].call = "read" /\ last.trace[i].len = n

\* after the entry i the trace ends or goes on with a write
NextIsWrite(i) == i < Len(last.trace) => last.trace[i + 1].call = "write"

\* the frame at i is followed by the reads of its reply and by nothing else
\* before the next frame; a query is the one address byte, a command is
\* address, payload and checksum
ReplyReadBeforeNextWrite(i) ==
  IF last.trace[i].len = 1
  THEN /\ IsQueryFrame(last.trace[i])
       /\ IsRead(i + 1, PayloadSize(Opcode(last.trace[i].bytes[1])))
       /\ IsRead(i + 2, 1)
       /\ NextIsWrite(i + 2)
  ELSE /\ IsRead(i + 1, 1)
       /\ NextIsWrite(i + 1)

\* the address bytes of the frames of the call, in the order sent
FrameAddresses ==
  LET frames == SelectSeq(last.trace, LAMBDA e : e.call = "write")
  IN [i \in 1..Len(frames) |-> frames[i].bytes[1]]

\* the requests the code of an operation makes: VCO range, reference,
\* options, all registers and the write of all registers for set_frequency
Requests(op) ==
  CASE op \in FreqSetOps -> 5
    [] op \in FreqGetOps -> 3
    [] op \in RmwOps -> 2
    [] op = "none" -> 0
    [] OTHER -> 1

SetFrequencyPlan(synth) ==
  << \H83 + synth, \H81, \H80 + synth, \H80 + synth, \H00 + synth >>

\* C25: at most one request is in flight: every transport write of a
\* request frame is followed by the reads of its reply (payload, then
\* checksum for a query; one status byte for a command) before the next
\* write; no request is sent again within one operation, whatever failed;
\* and set_frequency sends the write-all-registers frame only after the
\* replies to the VCO-range, reference, options and read-all-registers
\* queries were read.
C25_OneRequestInFlight ==
  /\ Len(last.trace) > 0 => last.trace[1].call = "write"
  /\ \A i \in FrameIdx : ReplyReadBeforeNextWrite(i)
  /\ Len(FrameAddresses) <= Requests(last.op)
  /\ last.op \notin FreqSetOps \cup FreqGetOps =>
       \A i, j \in FrameIdx :
         last.trace[i].bytes = last.trace[j].bytes => i = j
  /\ last.op \in FreqSetOps =>
       /\ FrameAddresses = SetFrequencyPlan(last.args[1])
       /\ \A c \in CommandIdx :
            /\ Cardinality(QueryIdx) = 4
            /\ \A q \in QueryIdx : q + 2 < c

\* a set_frequency whose reference query got no reply: the query was not
\* sent again and the five frames went out in order
C25_Witness ==
  /\ last.op = "set_frequency"
  /\ \E q \in QueryIdx :
       /\ last.trace[q].bytes[1] = \H81
       /\ last.trace[q + 1].ret = 0
  /\ Len(FrameAddresses) = 5

-----------------------------------------------------------------------------
(* The Serial class (Serial.cc, Serial.h), LINUX build.  dev is the Serial *)
(* object with the termios settings of its descriptor; pc is the position  *)
(* of the caller inside serial_read: at the select of the loop ("select"), *)
(* at the ::read that follows a select that reported the descriptor        *)
(* readable ("read"), or outside ("idle").                                 *)

\* bytes a caller asks serial_read for
MaxRead == 2

BaudRateInputs == {300, 1200, 9600}
DataBitsInputs == 5..9
StopBitsInputs == 1..3

\* the object Serial::Serial leaves behind when every call succeeded
SerialObject ==
  [the_baud_rate |-> 9600, the_number_of_data_bits |-> 8,
   the_number_of_stop_bits |-> 1, the_input_mode |-> "raw",
   termios |-> [speed |-> 9600, csize |-> 8, cstopb |-> FALSE]]

SerialReturn(op, args, ret, received) ==
  [op |-> op, args |-> args, ret |-> ret, out |-> received, trace |-> << >>]

SerialInit ==
  /\ dev = SerialObject
  /\ last = SerialReturn("none", << >>, 0, 0)
  /\ pc = "idle"

\* update_x(obj, value, get_ok, set_ok): the object and the int returned;
\* get_ok and set_ok are the outcomes of tcgetattr and tcsetattr
update_baud_rate(obj, baud_rate, get_ok, set_ok) ==
  LET known == baud_rate \in {1200, 2400, 4800, 9600, 19200, 38400, 57600,
                              115200}
      speed == IF known THEN baud_rate ELSE 9600
  IN IF ~get_ok
     THEN [obj |-> [obj EXCEPT !.the_baud_rate = baud_rate], ret |-> -1]
     ELSE [obj |-> [obj EXCEPT !.the_baud_rate = speed,
                               !.termios.speed =
                                  IF set_ok THEN speed ELSE @],
           ret |-> IF set_ok THEN 0 ELSE -1]

update_data_bits(obj, data_bits, get_ok, set_ok) ==
  LET bits == IF data_bits \in {5, 6, 7, 8} THEN data_bits ELSE 8
  IN IF ~get_ok
     THEN [obj |-> [obj EXCEPT !.the_number_of_data_bits = data_bits],
           ret |-> -1]
     ELSE [obj |-> [obj EXCEPT !.the_number_of_data_bits = bits,
                               !.termios.csize = IF set_ok THEN bits ELSE @],
           ret |-> IF set_ok THEN 0 ELSE -1]

update_stop_bits(obj, stop_bits, get_ok, set_ok) ==
  LET bits == IF stop_bits \in {1, 2} THEN stop_bits ELSE 1
  IN IF ~get_ok
     THEN [obj |-> [obj EXCEPT !.the_number_of_stop_bits = stop_bits],
           ret |-> -1]
     ELSE [obj |-> [obj EXCEPT !.the_number_of_stop_bits = bits,
                               !.termios.cstopb =
                                  IF set_ok THEN bits = 2 ELSE @],
           ret |-> IF set_ok THEN 0 ELSE -1]

SerialSet(op, arg, r) ==
  /\ dev' = r.obj
  /\ last' = SerialReturn(op, << arg >>, r.ret, 0)
  /\ pc' = "idle"

set_baud_rate ==
  /\ pc = "idle"
  /\ \E baud_rate \in BaudRateInputs, get_ok \in BOOLEAN, set_ok \in BOOLEAN :
       SerialSet("set_baud_rate", baud_rate,
                 update_baud_rate(dev, baud_rate, get_ok, set_ok))

set_data_bits ==
  /\ pc = "idle"
  /\ \E data_bits \in DataBitsInputs, get_ok \in BOOLEAN, set_ok \in BOOLEAN :
       SerialSet("set_data_bits", data_bits,
                 update_data_bits(dev, data_bits, get_ok, set_ok))

set_stop_bits ==
  /\ pc = "idle"
  /\ \E stop_bits \in StopBitsInputs, get_ok \in BOOLEAN, set_ok \in BOOLEAN :
       SerialSet("set_stop_bits", stop_bits,
                 update_stop_bits(dev, stop_bits, get_ok, set_ok))

\* Serial::read(input_buffer, number_of_bytes): entry of serial_read with
\* bytes_received = 0 and the first test of the loop condition
serial_read_enter ==
  /\ pc = "idle"
  /\ \E number_of_bytes \in 0..MaxRead :
       /\ last' = SerialReturn("read", << number_of_bytes >>, 0, 0)
       /\ pc' = IF 0 < number_of_bytes THEN "select" ELSE "idle"
  /\ UNCHANGED dev

\* select: on timeout (0) or error (-1) the loop is left and bytes_received
\* returned; otherwise the descriptor is readable
serial_read_select ==
  /\ pc = "select"
  /\ \E result \in {-1, 0, 1} :
       IF result <= 0
       THEN /\ last' = [last EXCEPT !.ret = last.out,
                                    !.trace = << "select", result >>]
            /\ pc' = "idle"
       ELSE /\ last' = [last EXCEPT !.trace = << "select", result >>]
            /\ pc' = "read"
  /\ UNCHANGED dev

\* ::read of the bytes still missing: -1 on error, else the bytes it got,
\* which are none at end of file; then the tests at the end and the head of
\* the loop
serial_read_read ==
  /\ pc = "read"
  /\ \E read_bytes \in -1..(last.args[1] - last.out) :
       IF read_bytes < 0
       THEN /\ last' = [last EXCEPT !.ret = read_bytes,
                                    !.trace = << "read", read_bytes >>]
            /\ pc' = "idle"
       ELSE LET bytes_received == last.out + read_bytes
                leave == \/ (dev.the_input_mode = "canonical"
                               /\ bytes_received > 0)
                         \/ ~(bytes_received < last.args[1])
            IN /\ last' = [last EXCEPT
                             !.out = bytes_received,
                             !.ret = IF leave THEN bytes_received ELSE @,
                             !.trace = << "read", read_bytes >>]
               /\ pc' = IF leave THEN "idle" ELSE "select"
  /\ UNCHANGED dev

SerialNext ==
  \/ set_baud_rate
  \/ set_data_bits
  \/ set_stop_bits
  \/ serial_read_enter
  \/ serial_read_select
  \/ serial_read_read

\* the thread that called read runs on until serial_read returns
SerialSpec ==
  /\ SerialInit
  /\ [][SerialNext]_vars
  /\ WF_vars(serial_read_select)
  /\ WF_vars(serial_read_read)

SerialReadReturned == last.op = "read" /\ pc = "idle"

\* C26: Serial::read in raw mode always terminates, and returns exactly the
\* requested count, or a smaller non-negative count only after a select
\* timeout or error, or a negative value after a read error; it never
\* returns more than requested and never loops forever while the descriptor
\* reports readable but each read yields zero bytes.
C26_ReadTerminates ==
  /\ [](SerialReadReturned =>
          /\ last.ret <= last.args[1]
          /\ (0 <= last.ret /\ last.ret < last.args[1]) =>
               (last.trace[1] = "select" /\ last.trace[2] <= 0)
          /\ last.ret < 0 => (last.trace[1] = "read" /\ last.trace[2] < 0))
  /\ (pc = "select") ~> (pc = "idle")


SerialSetSucceeded(op) == last.op = op /\ pc = "idle" /\ last.ret = 0

\* C27: after set_data_bits(n) returned success the number of data bits
\* stored and applied is n when n is 7 or 8 and 8 for every other n, 5 and
\* 6 included; set_baud_rate falls back to 9600 and set_stop_bits to 1 for
\* a value outside the documented sets.
C27_SettingDefaults ==
  /\ SerialSetSucceeded("set_data_bits") =>
       LET n == last.args[1]
           bits == IF n = 7 \/ n = 8 THEN n ELSE 8
       IN /\ dev.the_number_of_data_bits = bits
          /\ dev.termios.csize = bits
  /\ SerialSetSucceeded("set_baud_rate") =>
       LET n == last.args[1]
           documented == {1200, 2400, 4800, 9600, 19200, 38400, 57600,
                          115200}
           baud == IF n \in documented THEN n ELSE 9600
       IN /\ dev.the_baud_rate = baud
          /\ dev.termios.speed = baud
  /\ SerialSetSucceeded("set_stop_bits") =>
       LET n == last.args[1]
           bits == IF n = 1 \/ n = 2 THEN n ELSE 1
       IN /\ dev.the_number_of_stop_bits = bits
          /\ dev.termios.cstopb = (bits = 2)

-----------------------------------------------------------------------------
(* The operations on the frequency, level and option fields over a line    *)
(* without faults, set_frequency at more target frequencies and channel    *)
(* spacings than the calls of Spec take                                    *)

QuietFrequencies == Frequencies \cup {1200, 2409, 4000}
QuietSpacings == ChanSpacings \cup {3, 10}

quiet_set_frequency ==
  /\ pc = "idle"
  /\ \E synth \in Synthesizer, f \in QuietFrequencies, sp \in QuietSpacings,
        ub \in UndefinedInts :
       CallLegacy("set_frequency", << synth, f, sp >>,
                  set_frequency(NewCtx(dev, Quiet(5)), synth, f, sp, ub))

quiet_setFrequency ==
  /\ pc = "idle"
  /\ \E id \in Synthesizer, f \in QuietFrequencies, sp \in QuietSpacings,
        ub \in UndefinedInts :
       CallTemplate("setFrequency", << id, f, sp >>,
                    setFrequency(NewCtx(dev, Quiet(5)), id, f, sp, ub))

quiet_get_frequency ==
  /\ pc = "idle"
  /\ \E synth \in Synthesizer :
       CallLegacy("get_frequency", << synth >>,
                  get_frequency(NewCtx(dev, Quiet(3)), synth))

quiet_set_rf_level ==
  /\ pc = "idle"
  /\ \E synth \in Synthesizer, rf_level \in RfLevels :
       CallLegacy("set_rf_level", << synth, rf_level >>,
                  set_rf_level(NewCtx(dev, Quiet(2)), synth, rf_level))

quiet_set_options ==
  /\ pc = "idle"
  /\ \E synth \in Synthesizer, opts \in OptionSets :
       CallLegacy("set_options", << synth, opts >>,
                  set_options(NewCtx(dev, Quiet(2)), synth, opts))

FrequencyNext ==
  \/ quiet_set_frequency
  \/ quiet_setFrequency
  \/ quiet_get_frequency
  \/ quiet_set_rf_level
  \/ quiet_set_options

FrequencySpec == Init /\ [][FrequencyNext]_vars

\* C28: for every target frequency, reference, options and channel spacing
\* accepted by set_frequency, the pair written to the device satisfies
\* 0 <= frac < mod.
C28_ProperFraction ==
  /\ (last.op = "set_frequency" /\ CommandIdx # {}) =>
       (0 <= WrittenFrac /\ WrittenFrac < WrittenMod)
  /\ (last.op = "setFrequency" /\ CommandIdx # {}) =>
       (0 <= TplWrittenFrac /\ TplWrittenFrac < TplWrittenMod)


\* ncount, frac, mod and dbf as set_frequency computes them from what its
\* queries return from the device as it is now
LegacyVarsOfCall ==
  legacy_freq_vars(last.args[2], last.args[3], VcoMinOfCall,
                   getEPDF(NewCtx(dev, Quiet(2)), last.args[1]).epdf, {})

\* the ncount field of the Register0 word of the command frame
WrittenNcount == Field(WordAt(SubSeq(TheCommand, 2, 9), 0), 15, 16)

\* C29: every value set_frequency writes fits its register field without
\* truncation (ncount <= 65535, frac <= 4095, 1 <= mod <= 4095), so the
\* fields stored on the device equal the computed values, the mod field is
\* never written as 0, and a get_frequency that follows a successful
\* set_frequency never divides by a zero mod.
C29_FieldsFit ==
  (last.op = "set_frequency" /\ RmwSucceeded) =>
    LET ncount == BitsToNat(LegacyVarsOfCall.ncount)
        frac == BitsToNat(LegacyVarsOfCall.frac)
        mod == BitsToNat(LegacyVarsOfCall.mod)
    IN /\ ncount <= 65535 /\ frac <= 4095
       /\ 1 <= mod /\ mod <= 4095
       /\ WrittenNcount = ncount
       /\ WrittenFrac = frac
       /\ WrittenMod = mod
       /\ Field(dev.regs[last.args[1]][2], 3, 12) # 0

-----------------------------------------------------------------------------
\* the bits of the fields flds of one register layout
LayoutBits(flds) == UNION {FieldBits(fld) : fld \in flds}

\* the words pack_freq_registers leaves of an image of all ones when every
\* member of regs is 0 (dbf = 1, code 0)
PackedOverOnes ==
  pack_freq_registers([ncount |-> {}, frac |-> {}, mod |-> {},
                       dbf |-> NatToBits(1, 32)], [i \in 1..24 |-> \Hff])

\* the words it makes of an image of zeros when every member is all ones
\* and dbf is 16 (code 4)
PackedOverZeros ==
  pack_freq_registers([ncount |-> 0..31, frac |-> 0..31, mod |-> 0..31,
                       dbf |-> NatToBits(16, 32)], [i \in 1..24 |-> 0])

\* the word k of the image the read-modify-write read and of the one it
\* wrote
WordRead(k) == WordAt(RmwPayloadRead, k)
WordWritten(k) == WordAt(RmwPayloadWritten, k)

\* C30: the shift and mask constants of the legacy driver and the BitField
\* layouts describe the same fields: ncount bits 15-30 and frac 3-14 of
\* Register0; mod 3-14 of Register1; r 14-23, half_r 24, double_r 25 and
\* low_spur 29-30 of Register2; output_power 3-4 and divider_select 20-22 of
\* Register4.  The clear-masks 0x80000007, 0xffff8007, 0x9c003fff,
\* 0xffffffe7 and 0xff8fffff clear exactly those field bits and nothing
\* else, and within each register layout no two named fields overlap.
C30_LayoutsAgree ==
  /\ \A k \in 1..6 : \A f, g \in RegFields[k] :
       f # g => FieldBits(f) \cap FieldBits(g) = {}
  /\ {<<3, 12>>, <<15, 16>>} \subseteq RegFields[1]
  /\ <<3, 12>> \in RegFields[2]
  /\ {<<14, 10>>, <<24, 1>>, <<25, 1>>, <<29, 2>>} \subseteq RegFields[3]
  /\ {<<3, 2>>, <<20, 3>>} \subseteq RegFields[5]
  /\ WordAt(PackedOverOnes, 0) = Hex32(\H80, \H00, \H00, \H07)
  /\ WordAt(PackedOverOnes, 0)
       = (0..31) \ LayoutBits({<<3, 12>>, <<15, 16>>})
  /\ WordAt(PackedOverOnes, 1) = Hex32(\Hff, \Hff, \H80, \H07)
  /\ WordAt(PackedOverOnes, 1) = (0..31) \ FieldBits(<<3, 12>>)
  /\ WordAt(PackedOverOnes, 4) = Hex32(\Hff, \H8f, \Hff, \Hff)
  /\ WordAt(PackedOverOnes, 4) = (0..31) \ FieldBits(<<20, 3>>)
  /\ \A k \in {2, 3, 5} : WordAt(PackedOverOnes, k) = 0..31
  /\ WordAt(PackedOverZeros, 0) = LayoutBits({<<3, 12>>, <<15, 16>>})
  /\ WordAt(PackedOverZeros, 1) = FieldBits(<<3, 12>>)
  /\ WordAt(PackedOverZeros, 4) = {22}
  /\ (last.op = "set_frequency" /\ RmwSucceeded /\ QueriesSound) =>
       /\ WordWritten(0) =
            BitField_assign(
              BitField_assign(WordRead(0), 15, 16, LegacyVarsOfCall.ncount),
              3, 12, LegacyVarsOfCall.frac)
       /\ WordWritten(1) =
            BitField_assign(WordRead(1), 3, 12, LegacyVarsOfCall.mod)
       /\ WordWritten(4) =
            BitField_assign(WordRead(4), 20, 3,
              NatToBits(dbf_code(BitsToNat(LegacyVarsOfCall.dbf)), 32))
  /\ (last.op = "set_rf_level" /\ RmwSucceeded) =>
       /\ WordWritten(4) =
            BitField_assign(WordRead(4), 3, 2,
                            NatToBits(rf_level_code(last.args[2]), 32))
       /\ WordWritten(4) \cap Hex32(\Hff, \Hff, \Hff, \He7)
            = WordRead(4) \ FieldBits(<<3, 2>>)
  /\ (last.op = "set_options" /\ RmwSucceeded) =>
       LET opts == last.args[2]
           fields == {<<14, 10>>, <<24, 1>>, <<25, 1>>, <<29, 2>>}
       IN /\ WordWritten(2) =
               BitField_assign(
                 BitField_assign(
                   BitField_assign(
                     BitField_assign(WordRead(2), 14, 10,
                                     NatToBits(opts.r, 32)),
                     24, 1, Bit(opts.half_ref)),
                   25, 1, Bit(opts.double_ref)),
                 29, 2, IF opts.low_spur THEN {0, 1} ELSE {})
          /\ WordWritten(2) \cap Hex32(\H9c, \H00, \H3f, \Hff)
               = WordRead(2) \ LayoutBits(fields)
          /\ Hex32(\H9c, \H00, \H3f, \Hff) = (0..31) \ LayoutBits(fields)

\* a set_rf_level that changed the output_power field of a Register4 whose
\* neighbouring bits 2 and 5 are set, and left them set
C30_Witness ==
  /\ last.op = "set_rf_level" /\ RmwSucceeded
  /\ {2, 5} \subseteq WordRead(4) /\ {2, 5} \subseteq WordWritten(4)
  /\ WordWritten(4) # WordRead(4)

====
